---------------------------- MODULE Spec2Model ----------------------------
(***************************************************************************)
(* A model of the VM translator: the driver (main.py), HackParser          *)
(* (parser.py) and TranslationUnit (translation_unit.py).                  *)
(*                                                                         *)
(* Text is modelled as a sequence of characters (one-character strings).   *)
(* An assembly line is a tagged tuple:                                     *)
(*    <<"@", sym>>   the line "@sym"      (sym a character sequence)       *)
(*    <<"(", sym>>   the line "(sym)"                                      *)
(*    <<"C", dest, comp, jump>>   the C-instruction "dest=comp;jump"       *)
(*    <<"//", txt>>  the comment line "// txt"   (txt a character sequence)*)
(* and a block of assembly is a sequence of such lines.                    *)
(***************************************************************************)
EXTENDS Integers, Sequences, FiniteSets, TLC

(***************************************************************************)
(* Bounds of the model.                                                    *)
(***************************************************************************)
MaxLines == 2      \* lines of one input file
MaxFiles == 2      \* input files of one run
MaxTotal == 3      \* lines of all input files of one run together
MaxOps   == 3      \* direct calls of TranslationUnit methods in one run

(***************************************************************************)
(* Characters.  Two code points outside ASCII are named, not written:      *)
(* SUPERSCRIPT_TWO (U+00B2), for which str.isdigit() is True and int()     *)
(* raises ValueError, and ARABIC_INDIC_THREE (U+0663), a decimal digit     *)
(* that both accept.                                                       *)
(***************************************************************************)
AsciiDigits == <<"0", "1", "2", "3", "4", "5", "6", "7", "8", "9">>

IsAsciiDigit(c) == \E i \in 1..10 : AsciiDigits[i] = c

IsDecimalChar(c) == IsAsciiDigit(c) \/ c = "ARABIC_INDIC_THREE"

IsDigitChar(c) == IsDecimalChar(c) \/ c = "SUPERSCRIPT_TWO"

DigitVal(c) ==
  IF c = "ARABIC_INDIC_THREE" THEN 3
  ELSE (CHOOSE i \in 1..10 : AsciiDigits[i] = c) - 1

IsSpace(c) == c \in {" ", "\t", "\n"}

(***************************************************************************)
(* Python string operations used by the parser and the translator.         *)
(***************************************************************************)
RECURSIVE Dec(_)
\* the decimal digits of a natural number
Dec(n) == IF n < 10 THEN <<AsciiDigits[n + 1]>>
          ELSE Dec(n \div 10) \o <<AsciiDigits[(n % 10) + 1]>>

\* str(n) and the f-string rendering {n} of an int
PyStr(n) == IF n < 0 THEN <<"-">> \o Dec(0 - n) ELSE Dec(n)

RECURSIVE LStrip(_)
LStrip(s) == IF s # <<>> /\ IsSpace(Head(s)) THEN LStrip(Tail(s)) ELSE s

RECURSIVE RStrip(_)
RStrip(s) == IF s # <<>> /\ IsSpace(s[Len(s)])
             THEN RStrip(SubSeq(s, 1, Len(s) - 1)) ELSE s

\* s.strip()
Strip(s) == RStrip(LStrip(s))

RECURSIVE BeforeComment(_)
\* s.split('//', 1)[0]
BeforeComment(s) ==
  IF s = <<>> THEN <<>>
  ELSE IF Len(s) >= 2 /\ s[1] = "/" /\ s[2] = "/" THEN <<>>
  ELSE <<Head(s)>> \o BeforeComment(Tail(s))

RECURSIVE SplitFrom(_, _, _)
\* s.split(): cur is the token being read, acc the tokens read so far
SplitFrom(s, cur, acc) ==
  IF s = <<>> THEN (IF cur = <<>> THEN acc ELSE Append(acc, cur))
  ELSE IF IsSpace(Head(s))
       THEN SplitFrom(Tail(s), <<>>, IF cur = <<>> THEN acc ELSE Append(acc, cur))
       ELSE SplitFrom(Tail(s), Append(cur, Head(s)), acc)

Split(s) == SplitFrom(s, <<>>, <<>>)

RECURSIVE Join(_)
\* ' '.join(tokens)
Join(toks) ==
  IF toks = <<>> THEN <<>>
  ELSE IF Len(toks) = 1 THEN toks[1]
  ELSE toks[1] \o <<" ">> \o Join(Tail(toks))

\* tok.isdigit()
IsDigit(tok) == tok # <<>> /\ \A i \in 1..Len(tok) : IsDigitChar(tok[i])

RECURSIVE DecValue(_, _)
\* the value of a sequence of decimal digits and underscores, left to right
DecValue(s, acc) ==
  IF s = <<>> THEN acc
  ELSE IF Head(s) = "_" THEN DecValue(Tail(s), acc)
  ELSE DecValue(Tail(s), 10 * acc + DigitVal(Head(s)))

\* the literals int() accepts: an optional sign, then decimal digits that
\* single underscores may separate
IsIntLiteral(tok) ==
  LET body == IF tok # <<>> /\ Head(tok) \in {"+", "-"} THEN Tail(tok) ELSE tok
  IN  /\ body # <<>>
      /\ \A i \in 1..Len(body) : IsDecimalChar(body[i]) \/ body[i] = "_"
      /\ body[1] # "_" /\ body[Len(body)] # "_"
      /\ \A i \in 1..(Len(body) - 1) : ~(body[i] = "_" /\ body[i + 1] = "_")

\* int(tok), defined when IsIntLiteral(tok); otherwise int() raises ValueError
PyInt(tok) ==
  IF Head(tok) = "-" THEN 0 - DecValue(Tail(tok), 0)
  ELSE IF Head(tok) = "+" THEN DecValue(Tail(tok), 0)
  ELSE DecValue(tok, 0)

(***************************************************************************)
(* Words of the VM language and of the assembly, as character sequences.   *)
(***************************************************************************)
s_push     == <<"p", "u", "s", "h">>
s_pop      == <<"p", "o", "p">>
s_label    == <<"l", "a", "b", "e", "l">>
s_goto     == <<"g", "o", "t", "o">>
s_if_goto  == <<"i", "f", "-", "g", "o", "t", "o">>
s_function == <<"f", "u", "n", "c", "t", "i", "o", "n">>
s_call     == <<"c", "a", "l", "l">>
s_return   == <<"r", "e", "t", "u", "r", "n">>
s_add      == <<"a", "d", "d">>
s_sub      == <<"s", "u", "b">>
s_neg      == <<"n", "e", "g">>
s_eq       == <<"e", "q">>
s_gt       == <<"g", "t">>
s_lt       == <<"l", "t">>
s_and      == <<"a", "n", "d">>
s_or       == <<"o", "r">>
s_not      == <<"n", "o", "t">>
s_local    == <<"l", "o", "c", "a", "l">>
s_argument == <<"a", "r", "g", "u", "m", "e", "n", "t">>
s_this     == <<"t", "h", "i", "s">>
s_that     == <<"t", "h", "a", "t">>
s_constant == <<"c", "o", "n", "s", "t", "a", "n", "t">>
s_pointer  == <<"p", "o", "i", "n", "t", "e", "r">>
s_static   == <<"s", "t", "a", "t", "i", "c">>
s_temp     == <<"t", "e", "m", "p">>
s_SP       == <<"S", "P">>
s_LCL      == <<"L", "C", "L">>
s_ARG      == <<"A", "R", "G">>
s_THIS     == <<"T", "H", "I", "S">>
s_THAT     == <<"T", "H", "A", "T">>
s_R        == <<"R">>
s_R13      == <<"R", "1", "3">>
s_EQ       == <<"E", "Q">>
s_GT       == <<"G", "T">>
s_LT       == <<"L", "T">>
s_END      == <<"_", "E", "N", "D">>
s_ret      == <<"$", "r", "e", "t", ".">>
s_Sys_init == <<"S", "y", "s", ".", "i", "n", "i", "t">>

\* the assembly lines
AInst(sym)             == <<"@", sym>>
LabelDef(sym)          == <<"(", sym>>
CInst(dest, comp, jmp) == <<"C", dest, comp, jmp>>
Comment(txt)           == <<"//", txt>>

(***************************************************************************)
(* TranslationUnit: class constants.                                       *)
(***************************************************************************)
__MEMORY_SEGMENTS == {s_local, s_argument, s_this, s_that,
                    s_constant, s_pointer, s_static, s_temp}

__MEM_SEG_MAP(segment) ==
  CASE segment = s_local    -> s_LCL
    [] segment = s_argument -> s_ARG
    [] segment = s_this     -> s_THIS
    [] segment = s_that     -> s_THAT

__ARITHMETIC_COMMANDS == {s_add, s_sub, s_neg, s_eq, s_gt, s_lt, s_and, s_or, s_not}

__VAR_BASE_ADDRESS  == 16
__CALL_FRAME_SIZE   == 5
__SP_BASE_ADDRESS   == 256
__TEMP_BASE_ADDRESS == 5
__TEMP_MAX_ADDRESS  == 12
__THIS_POINTER      == 0
__THAT_POINTER      == 1

(***************************************************************************)
(* Exceptions.  A method returns [tu, asm, err]: the TranslationUnit after *)
(* the call, the assembly returned and the exception raised (NoErr when    *)
(* the method returned).  A raising call returns no assembly.              *)
(***************************************************************************)
NoErr == [type |-> "none", kind |-> "none", command |-> <<>>,
          line_no |-> 0, filename |-> <<>>]

\* raise ValueError(...) of the translator, and the ValueError of int()
ValueError(kind) == [type |-> "ValueError", kind |-> kind, command |-> <<>>,
                     line_no |-> 0, filename |-> <<>>]

\* the AttributeError of reading a field that was never assigned
AttributeError(field) == [type |-> "AttributeError", kind |-> field,
                          command |-> <<>>, line_no |-> 0, filename |-> <<>>]

ParserError(kind, command, line_no, filename) ==
  [type |-> "ParserError", kind |-> kind, command |-> command,
   line_no |-> line_no, filename |-> filename]

Ret(tu, asm)   == [tu |-> tu, asm |-> asm, err |-> NoErr]
Raise(tu, err) == [tu |-> tu, asm |-> <<>>, err |-> err]

(***************************************************************************)
(* TranslationUnit: the object after TranslationUnit() (no filename).      *)
(* filename and static_prefix exist only once set_filename has run:        *)
(* has_filename tells whether they do.                                     *)
(***************************************************************************)
NewTranslationUnit ==
  [static_labels       |-> <<>>,
   function_call_count |-> <<>>,
   current_function    |-> <<>>,
   eq_label_count      |-> 0,
   gt_label_count      |-> 0,
   lt_label_count      |-> 0,
   has_filename        |-> FALSE,
   filename            |-> <<>>,
   static_prefix       |-> <<>>]

\* mutant: a new file keeps the current function
set_filename_keeps_function(tu, filename) ==
  [tu EXCEPT !.has_filename = TRUE, !.filename = filename,
             !.static_prefix = filename]

\* mutant: a new file restarts the comparison counters
set_filename_resets_counters(tu, filename) ==
  [tu EXCEPT !.has_filename = TRUE, !.filename = filename,
             !.static_prefix = filename, !.current_function = <<>>,
             !.eq_label_count = 0, !.gt_label_count = 0, !.lt_label_count = 0]

set_filename(tu, filename) ==
  [tu EXCEPT !.has_filename = TRUE, !.filename = filename,
             !.static_prefix = filename, !.current_function = <<>>]

(***************************************************************************)
(* TranslationUnit: push.                                                  *)
(***************************************************************************)
\* mutant: the value is stored and SP is left where it was
__push_d_reg_to_stack_keeps_sp ==
  << AInst(s_SP), CInst("A", "M", ""), CInst("M", "D", ""),
     AInst(s_SP), CInst("M", "M", "") >>

__push_d_reg_to_stack ==
  << AInst(s_SP), CInst("A", "M", ""), CInst("M", "D", ""),
     AInst(s_SP), CInst("M", "M+1", "") >>

__push_constant(value) == << AInst(PyStr(value)), CInst("D", "A", "") >>

\* mutant: the last temp register is taken to be out of bounds
__check_temp_address_off_by_one(offset) ==
  IF offset < 0 \/ (__TEMP_BASE_ADDRESS + offset) >= __TEMP_MAX_ADDRESS
  THEN [ok |-> FALSE, err |-> ValueError("TempOutOfRange")]
  ELSE [ok |-> TRUE, err |-> NoErr]

\* [ok, err]: whether the check returned, and the exception when it raised
__check_temp_address(offset) ==
  IF offset < 0 \/ (__TEMP_BASE_ADDRESS + offset) > __TEMP_MAX_ADDRESS
  THEN [ok |-> FALSE, err |-> ValueError("TempOutOfRange")]
  ELSE [ok |-> TRUE, err |-> NoErr]

__check_pointer_value(value) ==
  IF value # __THIS_POINTER /\ value # __THAT_POINTER
  THEN [ok |-> FALSE, err |-> ValueError("PointerOutOfRange")]
  ELSE [ok |-> TRUE, err |-> NoErr]

\* mutant: the label joins prefix and offset with no separator
__get_static_label_no_separator(tu, offset) ==
  IF ~tu.has_filename
  THEN [tu |-> tu, label |-> <<>>, err |-> AttributeError("static_prefix")]
  ELSE LET label == tu.static_prefix \o PyStr(offset)
           known == \E i \in 1..Len(tu.static_labels) :
                       tu.static_labels[i].key = label
           count == Len(tu.static_labels)
       IN  [tu    |-> IF known THEN tu
                      ELSE [tu EXCEPT !.static_labels =
                              Append(@, [key   |-> label,
                                         value |-> __VAR_BASE_ADDRESS + count])],
            label |-> label,
            err   |-> NoErr]

\* [tu, label, err]: the label and the TranslationUnit with the label recorded
\* mutant: a label already known gets a new address
__get_static_label_reassigns(tu, offset) ==
  IF ~tu.has_filename
  THEN [tu |-> tu, label |-> <<>>, err |-> AttributeError("static_prefix")]
  ELSE LET label == tu.static_prefix \o <<".">> \o PyStr(offset)
           known == \E i \in 1..Len(tu.static_labels) :
                       tu.static_labels[i].key = label
           count == Len(tu.static_labels)
           entry == [key |-> label, value |-> __VAR_BASE_ADDRESS + count]
       IN  [tu    |-> IF known
                      THEN [tu EXCEPT !.static_labels =
                              [i \in 1..Len(@) |->
                                 IF @[i].key = label THEN entry ELSE @[i]]]
                      ELSE [tu EXCEPT !.static_labels = Append(@, entry)],
            label |-> label,
            err   |-> NoErr]

__get_static_label(tu, offset) ==
  IF ~tu.has_filename
  THEN [tu |-> tu, label |-> <<>>, err |-> AttributeError("static_prefix")]
  ELSE LET label == tu.static_prefix \o <<".">> \o PyStr(offset)
           known == \E i \in 1..Len(tu.static_labels) :
                       tu.static_labels[i].key = label
           count == Len(tu.static_labels)
       IN  [tu    |-> IF known THEN tu
                      ELSE [tu EXCEPT !.static_labels =
                              Append(@, [key   |-> label,
                                         value |-> __VAR_BASE_ADDRESS + count])],
            label |-> label,
            err   |-> NoErr]

__push_static(tu, offset) ==
  LET g == __get_static_label(tu, offset)
  IN  IF g.err # NoErr THEN Raise(g.tu, g.err)
      ELSE Ret(g.tu, << AInst(g.label), CInst("D", "M", "") >>)

__push_normal_segment(segment, offset) ==
  << AInst(__MEM_SEG_MAP(segment)), CInst("D", "M", ""),
     AInst(PyStr(offset)), CInst("A", "D+A", ""), CInst("D", "M", "") >>

__push_pointer(tu, pointer) ==
  LET c == __check_pointer_value(pointer)
  IN  IF ~c.ok THEN Raise(tu, c.err)
      ELSE IF pointer = __THIS_POINTER
           THEN Ret(tu, << AInst(__MEM_SEG_MAP(s_this)), CInst("D", "M", "") >>)
           ELSE Ret(tu, << AInst(__MEM_SEG_MAP(s_that)), CInst("D", "M", "") >>)

__push_temp(tu, offset) ==
  LET c == __check_temp_address(offset)
  IN  IF ~c.ok THEN Raise(tu, c.err)
      ELSE Ret(tu, << AInst(PyStr(__TEMP_BASE_ADDRESS + offset)),
                      CInst("D", "M", "") >>)

\* r + more: the assembly of a call that returned, extended
Then(r, more) == IF r.err # NoErr THEN r ELSE Ret(r.tu, r.asm \o more)

push_command(tu, segment, offset) ==
  IF segment \in __MEMORY_SEGMENTS
  THEN IF segment = s_constant
         THEN Ret(tu, __push_constant(offset) \o __push_d_reg_to_stack)
       ELSE IF segment = s_static
         THEN Then(__push_static(tu, offset), __push_d_reg_to_stack)
       ELSE IF segment = s_temp
         THEN Then(__push_temp(tu, offset), __push_d_reg_to_stack)
       ELSE IF segment = s_pointer
         THEN Then(__push_pointer(tu, offset), __push_d_reg_to_stack)
       ELSE Ret(tu, __push_normal_segment(segment, offset)
                    \o __push_d_reg_to_stack)
  ELSE Raise(tu, ValueError("InvalidSegment"))

(***************************************************************************)
(* TranslationUnit: pop.                                                   *)
(***************************************************************************)
\* mutant: the top of the stack is read and SP is left where it was
__pop_stack_to_d_reg_keeps_sp ==
  << AInst(s_SP), CInst("A", "M-1", ""), CInst("D", "M", "") >>

__pop_stack_to_d_reg ==
  << AInst(s_SP), CInst("AM", "M-1", ""), CInst("D", "M", "") >>

pop_command(tu, segment, offset) ==
  IF segment \in __MEMORY_SEGMENTS
  THEN IF segment = s_constant
         THEN Raise(tu, ValueError("CannotPopToConstant"))
       ELSE IF segment = s_temp
         THEN LET c == __check_temp_address(offset)
              IN  IF ~c.ok THEN Raise(tu, c.err)
                  ELSE Ret(tu, __pop_stack_to_d_reg
                               \o << AInst(PyStr(__TEMP_BASE_ADDRESS + offset)),
                                     CInst("M", "D", "") >>)
       ELSE IF segment = s_static
         THEN LET g == __get_static_label(tu, offset)
              IN  IF g.err # NoErr THEN Raise(g.tu, g.err)
                  ELSE Ret(g.tu, __pop_stack_to_d_reg
                                 \o << AInst(g.label), CInst("M", "D", "") >>)
       ELSE IF segment = s_pointer
         THEN LET c == __check_pointer_value(offset)
                  label == IF offset = __THIS_POINTER
                           THEN __MEM_SEG_MAP(s_this) ELSE __MEM_SEG_MAP(s_that)
              IN  IF ~c.ok THEN Raise(tu, c.err)
                  ELSE Ret(tu, __pop_stack_to_d_reg
                               \o << AInst(label), CInst("M", "D", "") >>)
       ELSE IF offset > 1
         THEN Ret(tu, << AInst(__MEM_SEG_MAP(segment)), CInst("D", "M", ""),
                         AInst(PyStr(offset)), CInst("D", "D+A", ""),
                         AInst(s_R13), CInst("M", "D", "") >>
                      \o __pop_stack_to_d_reg
                      \o << AInst(s_R13), CInst("A", "M", ""),
                            CInst("M", "D", "") >>)
       ELSE IF offset = 1
         THEN Ret(tu, __pop_stack_to_d_reg
                      \o << AInst(__MEM_SEG_MAP(segment)), CInst("A", "M+1", ""),
                            CInst("M", "D", "") >>)
       ELSE Ret(tu, __pop_stack_to_d_reg
                    \o << AInst(__MEM_SEG_MAP(segment)), CInst("A", "M", ""),
                          CInst("M", "D", "") >>)
  ELSE Raise(tu, ValueError("InvalidSegment"))

(***************************************************************************)
(* TranslationUnit: arithmetic and logical commands.                       *)
(***************************************************************************)
\* mutant: sub computes D-M, the top value minus the one below it
__add_or_sub_command_reversed(command) ==
  __pop_stack_to_d_reg
  \o << CInst("A", "A-1", ""),
        IF command = s_add THEN CInst("M", "M+D", "") ELSE CInst("M", "D-M", "") >>

__add_or_sub_command(command) ==
  __pop_stack_to_d_reg
  \o << CInst("A", "A-1", ""),
        IF command = s_add THEN CInst("M", "M+D", "") ELSE CInst("M", "M-D", "") >>

__add_command == __add_or_sub_command(s_add)

__sub_command == __add_or_sub_command(s_sub)

__neg_command == << AInst(s_SP), CInst("A", "M-1", ""), CInst("M", "-M", "") >>

__not_command == << AInst(s_SP), CInst("A", "M-1", ""), CInst("M", "!M", "") >>

\* logical_op is "&" or "|": the line M=D{logical_op}M
__logical_command(logical_op) ==
  __pop_stack_to_d_reg
  \o << CInst("A", "A-1", ""),
        CInst("M", IF logical_op = "&" THEN "D&M" ELSE "D|M", "") >>

__and_command == __logical_command("&")

__or_command == __logical_command("|")

\* D=0 is D={__FALSE} and D=-1 is D={__TRUE}
__comparison_command(label, condition) ==
  __pop_stack_to_d_reg
  \o << CInst("A", "A-1", ""),
        CInst("D", "M-D", ""),
        AInst(label),
        CInst("", "D", condition),
        CInst("D", "0", ""),
        AInst(label \o s_END),
        CInst("", "0", "JMP"),
        LabelDef(label),
        CInst("D", "-1", ""),
        LabelDef(label \o s_END),
        AInst(s_SP),
        CInst("A", "M-1", ""),
        CInst("M", "D", "") >>

__eq_command(tu) ==
  LET t == [tu EXCEPT !.eq_label_count = @ + 1]
  IN  Ret(t, __comparison_command(s_EQ \o PyStr(t.eq_label_count), "JEQ"))

__gt_command(tu) ==
  LET t == [tu EXCEPT !.gt_label_count = @ + 1]
  IN  Ret(t, __comparison_command(s_GT \o PyStr(t.gt_label_count), "JGT"))

__lt_command(tu) ==
  LET t == [tu EXCEPT !.lt_label_count = @ + 1]
  IN  Ret(t, __comparison_command(s_LT \o PyStr(t.lt_label_count), "JLT"))

\* a command outside the nine falls through every branch: the method
\* returns None, here the block holding the one line <<"None">>
arithmetic_command(tu, command) ==
  IF command \in __ARITHMETIC_COMMANDS
  THEN CASE command = s_add -> Ret(tu, __add_command)
         [] command = s_sub -> Ret(tu, __sub_command)
         [] command = s_neg -> Ret(tu, __neg_command)
         [] command = s_eq  -> __eq_command(tu)
         [] command = s_gt  -> __gt_command(tu)
         [] command = s_lt  -> __lt_command(tu)
         [] command = s_and -> Ret(tu, __and_command)
         [] command = s_or  -> Ret(tu, __or_command)
         [] command = s_not -> Ret(tu, __not_command)
  ELSE Ret(tu, << <<"None">> >>)

(***************************************************************************)
(* TranslationUnit: branching.                                             *)
(***************************************************************************)
\* mutant: the label scoped by the file name too
__get_label_with_filename(tu, label) ==
  tu.filename \o <<".">> \o tu.current_function \o <<"$">> \o label

__get_label(tu, label) == tu.current_function \o <<"$">> \o label

label_command(tu, label) == Ret(tu, << LabelDef(__get_label(tu, label)) >>)

unconditional_goto_command(tu, label) ==
  Ret(tu, << AInst(__get_label(tu, label)), CInst("", "0", "JMP") >>)

conditional_goto_command(tu, label) ==
  Ret(tu, __pop_stack_to_d_reg
          \o << AInst(__get_label(tu, label)), CInst("", "D", "JNE") >>)

(***************************************************************************)
(* TranslationUnit: function call, declaration and return.                 *)
(***************************************************************************)
\* the dict function_call_count as its items, in insertion order
HasKey(d, k) == \E i \in 1..Len(d) : d[i].key = k

Lookup(d, k) == d[CHOOSE i \in 1..Len(d) : d[i].key = k].value

\* mutant: a callee already counted keeps its count
__get_function_call_count_no_increment(tu, function_name) ==
  IF ~HasKey(tu.function_call_count, function_name)
  THEN [tu    |-> [tu EXCEPT !.function_call_count =
                      Append(@, [key |-> function_name, value |-> 1])],
        count |-> 1]
  ELSE [tu |-> tu, count |-> Lookup(tu.function_call_count, function_name)]

\* [tu, count]
__get_function_call_count(tu, function_name) ==
  IF ~HasKey(tu.function_call_count, function_name)
  THEN [tu    |-> [tu EXCEPT !.function_call_count =
                      Append(@, [key |-> function_name, value |-> 1])],
        count |-> 1]
  ELSE LET d == [i \in 1..Len(tu.function_call_count) |->
                   IF tu.function_call_count[i].key = function_name
                   THEN [key   |-> function_name,
                         value |-> tu.function_call_count[i].value + 1]
                   ELSE tu.function_call_count[i]]
       IN  [tu    |-> [tu EXCEPT !.function_call_count = d],
            count |-> Lookup(d, function_name)]

\* [tu, label]
__get_return_label(tu, function_name) ==
  LET c == __get_function_call_count(tu, function_name)
  IN  [tu |-> c.tu, label |-> function_name \o s_ret \o PyStr(c.count)]

__push_return_address_to_stack(label) ==
  << AInst(label), CInst("D", "A", "") >> \o __push_d_reg_to_stack

__push_segment_pointer_to_stack(segment_label) ==
  << AInst(segment_label), CInst("D", "M", "") >> \o __push_d_reg_to_stack

__set_arg_pointer(arg_count) ==
  << AInst(s_SP), CInst("D", "M", ""),
     AInst(PyStr(__CALL_FRAME_SIZE)), CInst("D", "D-A", ""),
     AInst(PyStr(arg_count)), CInst("D", "D-A", ""),
     AInst(s_ARG), CInst("M", "D", "") >>

__set_local_pointer ==
  << AInst(s_SP), CInst("D", "M", ""), AInst(s_LCL), CInst("M", "D", "") >>

call_function(tu, function_name, arg_count) ==
  LET r == __get_return_label(tu, function_name)
  IN  Ret(r.tu,
          __push_return_address_to_stack(r.label)
          \o __push_segment_pointer_to_stack(s_LCL)
          \o __push_segment_pointer_to_stack(s_ARG)
          \o __push_segment_pointer_to_stack(s_THIS)
          \o __push_segment_pointer_to_stack(s_THAT)
          \o __set_arg_pointer(arg_count)
          \o __set_local_pointer
          \o << AInst(function_name), CInst("", "0", "JMP") >>
          \o << LabelDef(r.label) >>)

RECURSIVE PushZeros(_)
\* the loop: while local_count > 0
PushZeros(local_count) ==
  IF local_count > 0
  THEN << AInst(s_SP), CInst("A", "M", ""), CInst("M", "0", ""),
          AInst(s_SP), CInst("M", "M+1", "") >> \o PushZeros(local_count - 1)
  ELSE <<>>

function_declaration(tu, function_name, local_count) ==
  Ret([tu EXCEPT !.current_function = function_name],
      << LabelDef(function_name) >> \o PushZeros(local_count))

\* [ok, asm]: temp is 13..15, else ValueError
__store_d_reg_in_vm_temp(temp) ==
  IF temp >= 13 /\ temp <= 15
  THEN [ok |-> TRUE, asm |-> << AInst(s_R \o PyStr(temp)), CInst("M", "D", "") >>]
  ELSE [ok |-> FALSE, asm |-> <<>>]

\* mutant: R14 gets the address endFrame - 5, not the return address
\* stored there
__store_end_frame_and_return_addr_late(end_frame, return_address) ==
  << AInst(s_LCL), CInst("D", "M", "") >>
  \o __store_d_reg_in_vm_temp(end_frame).asm
  \o << AInst(PyStr(__CALL_FRAME_SIZE)), CInst("D", "D-A", "") >>
  \o __store_d_reg_in_vm_temp(return_address).asm

__store_end_frame_and_return_addr(end_frame, return_address) ==
  << AInst(s_LCL), CInst("D", "M", "") >>
  \o __store_d_reg_in_vm_temp(end_frame).asm
  \o << AInst(PyStr(__CALL_FRAME_SIZE)), CInst("A", "D-A", ""), CInst("D", "M", "") >>
  \o __store_d_reg_in_vm_temp(return_address).asm

__save_result_to_stack ==
  __pop_stack_to_d_reg
  \o << AInst(s_ARG), CInst("A", "M", ""), CInst("M", "D", "") >>

__reset_stack_pointer_to_caller ==
  << AInst(s_ARG), CInst("D", "M", ""), AInst(s_SP), CInst("M", "D+1", "") >>

\* one round of the loop over ('LCL', 'ARG', 'THIS', 'THAT'), index from 1
RestoreSegment(end_frame_pointer, index, segment) ==
  << AInst(s_R \o PyStr(end_frame_pointer)), CInst("D", "M", ""),
     AInst(PyStr(__CALL_FRAME_SIZE - index)), CInst("D", "D-A", ""),
     CInst("A", "D", ""), CInst("D", "M", ""),
     AInst(segment), CInst("M", "D", "") >>

\* mutant: the segments restored from THAT down to LCL
__restore_caller_segments_that_first(end_frame_pointer) ==
  RestoreSegment(end_frame_pointer, 4, s_THAT)
  \o RestoreSegment(end_frame_pointer, 3, s_THIS)
  \o RestoreSegment(end_frame_pointer, 2, s_ARG)
  \o RestoreSegment(end_frame_pointer, 1, s_LCL)

__restore_caller_segments(end_frame_pointer) ==
  RestoreSegment(end_frame_pointer, 1, s_LCL)
  \o RestoreSegment(end_frame_pointer, 2, s_ARG)
  \o RestoreSegment(end_frame_pointer, 3, s_THIS)
  \o RestoreSegment(end_frame_pointer, 4, s_THAT)

return_from_function(tu) ==
  LET end_frame      == 13
      return_address == 14
  IN  IF ~(__store_d_reg_in_vm_temp(end_frame).ok
           /\ __store_d_reg_in_vm_temp(return_address).ok)
      THEN Raise(tu, ValueError("ScratchRegisterOutOfRange"))
      ELSE Ret(tu,
               __store_end_frame_and_return_addr(end_frame, return_address)
               \o __save_result_to_stack
               \o __reset_stack_pointer_to_caller
               \o __restore_caller_segments(end_frame)
               \o << AInst(s_R \o PyStr(return_address)),
                     CInst("A", "M", ""), CInst("", "0", "JMP") >>)

\* the line "// Bootstrap code", SP = 256, then call Sys.init 0
get_bootstrap_instructions(tu) ==
  LET c == call_function(tu, s_Sys_init, 0)
  IN  Ret(c.tu,
          << Comment(<<"B", "o", "o", "t", "s", "t", "r", "a", "p", " ",
                       "c", "o", "d", "e">>),
             AInst(PyStr(__SP_BASE_ADDRESS)), CInst("D", "A", ""),
             AInst(s_SP), CInst("M", "D", "") >>
          \o c.asm)

(***************************************************************************)
(* HackParser: class constants and the checks of one command.              *)
(***************************************************************************)
\* mutant: constant is among the segments a pop may name
__POP_STACKS_with_constant ==
  {s_static, s_local, s_this, s_that, s_argument, s_pointer, s_temp, s_constant}

__POP_STACKS == {s_static, s_local, s_this, s_that, s_argument, s_pointer, s_temp}

__PUSH_STACKS == __POP_STACKS \cup {s_constant}

__ARG2_LIST == {"C_PUSH", "C_POP", "C_FUNCTION", "C_CALL"}

\* command.strip().split('//', 1)[0] is empty
__is_comment_or_empty_line(command) == BeforeComment(Strip(command)) = <<>>

\* [type, err]: the command type, or the ParserError raised (type "none")
Typed(type) == [type |-> type, err |-> NoErr]

Failed(err) == [type |-> "none", err |-> err]

\* command is the list of tokens
__check_push_command(command, line_no, filename) ==
  IF command[2] \notin __PUSH_STACKS
  THEN Failed(ParserError("UnrecognizedMemorySegment", Join(command), line_no, filename))
  ELSE IF ~IsDigit(command[3])
  THEN Failed(ParserError("IllegalOffset", Join(command), line_no, filename))
  ELSE Typed("C_PUSH")

__check_pop_command(command, line_no, filename) ==
  IF command[2] \notin __POP_STACKS
  THEN Failed(ParserError("UnrecognizedMemorySegment", Join(command), line_no, filename))
  ELSE IF ~IsDigit(command[3])
  THEN Failed(ParserError("IllegalOffset", Join(command), line_no, filename))
  ELSE Typed("C_POP")

\* mutant: tokens after the third are ignored
__get_command_type_extra_tokens(text, line_no, filename) ==
  LET command == Split(text)
      unrecognised ==
        Failed(ParserError("UnrecognizedCommand", command, line_no, filename))
  IN  IF Len(command) >= 3
      THEN IF command[1] = s_push
             THEN __check_push_command(command, line_no, filename)
           ELSE IF command[1] = s_pop
             THEN __check_pop_command(command, line_no, filename)
           ELSE IF command[1] = s_call THEN Typed("C_CALL")
           ELSE IF command[1] = s_function THEN Typed("C_FUNCTION")
           ELSE unrecognised
      ELSE IF Len(command) = 2
      THEN IF command[1] = s_label THEN Typed("C_LABEL")
           ELSE IF command[1] = s_goto THEN Typed("C_GOTO")
           ELSE IF command[1] = s_if_goto THEN Typed("C_IF")
           ELSE unrecognised
      ELSE IF Len(command) = 1
      THEN IF command[1] = s_return THEN Typed("C_RETURN")
           ELSE IF command[1] \in __ARITHMETIC_COMMANDS THEN Typed("C_ARITHMETIC")
           ELSE unrecognised
      ELSE unrecognised

\* the raise at the end carries the list of tokens, not the joined text
__get_command_type(text, line_no, filename) ==
  LET command == Split(text)
      unrecognised ==
        Failed(ParserError("UnrecognizedCommand", command, line_no, filename))
  IN  IF Len(command) = 3
      THEN IF command[1] = s_push
             THEN __check_push_command(command, line_no, filename)
           ELSE IF command[1] = s_pop
             THEN __check_pop_command(command, line_no, filename)
           ELSE IF command[1] = s_call THEN Typed("C_CALL")
           ELSE IF command[1] = s_function THEN Typed("C_FUNCTION")
           ELSE unrecognised
      ELSE IF Len(command) = 2
      THEN IF command[1] = s_label THEN Typed("C_LABEL")
           ELSE IF command[1] = s_goto THEN Typed("C_GOTO")
           ELSE IF command[1] = s_if_goto THEN Typed("C_IF")
           ELSE unrecognised
      ELSE IF Len(command) = 1
      THEN IF command[1] = s_return THEN Typed("C_RETURN")
           ELSE IF command[1] \in __ARITHMETIC_COMMANDS THEN Typed("C_ARITHMETIC")
           ELSE unrecognised
      ELSE unrecognised

\* [ok, value, err]; run() never calls it for C_RETURN
__get_arg_1(text, command_type, line_no, filename) ==
  IF command_type = "C_RETURN"
  THEN [ok |-> FALSE, value |-> <<>>,
        err |-> ParserError("NoArg1", text, line_no, filename)]
  ELSE IF command_type = "C_ARITHMETIC"
  THEN [ok |-> TRUE, value |-> Split(text)[1], err |-> NoErr]
  ELSE [ok |-> TRUE, value |-> Split(text)[2], err |-> NoErr]

\* [ok, value, err]: int(command[2]), which raises ValueError on a token
\* that is no integer literal
__get_arg_2(text, command_type, line_no, filename) ==
  LET command == Split(text)
  IN  IF command_type \in __ARG2_LIST
      THEN IF IsIntLiteral(command[3])
           THEN [ok |-> TRUE, value |-> PyInt(command[3]), err |-> NoErr]
           ELSE [ok |-> FALSE, value |-> 0, err |-> ValueError("InvalidLiteral")]
      ELSE [ok |-> FALSE, value |-> 0,
            err |-> ParserError("NoArg2", Join(command), line_no, filename)]

(***************************************************************************)
(* One call of a public TranslationUnit method, by name, and its record in *)
(* the history of calls.  Unused arguments are <<>> and 0.                 *)
(***************************************************************************)
Invoke(tu, method, a1, a2) ==
  CASE method = "push_command"               -> push_command(tu, a1, a2)
    [] method = "pop_command"                -> pop_command(tu, a1, a2)
    [] method = "arithmetic_command"         -> arithmetic_command(tu, a1)
    [] method = "label_command"              -> label_command(tu, a1)
    [] method = "unconditional_goto_command" -> unconditional_goto_command(tu, a1)
    [] method = "conditional_goto_command"   -> conditional_goto_command(tu, a1)
    [] method = "call_function"              -> call_function(tu, a1, a2)
    [] method = "function_declaration"       -> function_declaration(tu, a1, a2)
    [] method = "return_from_function"       -> return_from_function(tu)
    [] method = "get_bootstrap_instructions" -> get_bootstrap_instructions(tu)
    [] method = "set_filename"               -> Ret(set_filename(tu, a1), <<>>)

CallRecord(tu, method, a1, a2) ==
  CHOOSE c \in { [method |-> method, arg1 |-> a1, arg2 |-> a2,
                  asm |-> r.asm, err |-> r.err, before |-> tu, after |-> r.tu] :
                 r \in { Invoke(tu, method, a1, a2) } } : TRUE

(***************************************************************************)
(* HackParser.run: the body of one round of the loop, for a command that   *)
(* is no comment or empty line.  [tu, frags, err, calls]: the translator   *)
(* after the round, the fragments appended to asm_list (none or one), the  *)
(* exception raised (NoErr when none), and the translator calls made.      *)
(***************************************************************************)
\* mutant: a fragment without its comment line
Fragment_without_header(command, asm) == asm

\* f'// --- {command} ---\n{asm}'
Fragment(command, asm) ==
  << Comment(<<"-", "-", "-", " ">> \o command \o <<" ", "-", "-", "-">>) >> \o asm

MethodOf(command_type) ==
  CASE command_type = "C_PUSH"       -> "push_command"
    [] command_type = "C_POP"        -> "pop_command"
    [] command_type = "C_ARITHMETIC" -> "arithmetic_command"
    [] command_type = "C_LABEL"      -> "label_command"
    [] command_type = "C_GOTO"       -> "unconditional_goto_command"
    [] command_type = "C_IF"         -> "conditional_goto_command"
    [] command_type = "C_CALL"       -> "call_function"
    [] command_type = "C_FUNCTION"   -> "function_declaration"
    [] command_type = "C_RETURN"     -> "return_from_function"

TranslateCommand(tu, command, line_no, filename) ==
  LET t  == __get_command_type(command, line_no, filename)
      a1 == IF t.type \in {"C_ARITHMETIC", "C_RETURN"}
            THEN [ok |-> TRUE, value |-> command, err |-> NoErr]
            ELSE __get_arg_1(command, t.type, line_no, filename)
      a2 == IF t.type \in __ARG2_LIST
            THEN __get_arg_2(command, t.type, line_no, filename)
            ELSE [ok |-> TRUE, value |-> 0, err |-> NoErr]
      c  == CallRecord(tu, MethodOf(t.type),
                       IF t.type = "C_RETURN" THEN <<>> ELSE a1.value, a2.value)
  IN  IF t.err # NoErr
        THEN [tu |-> tu, frags |-> <<>>, err |-> t.err, calls |-> <<>>]
      ELSE IF ~a1.ok
        THEN [tu |-> tu, frags |-> <<>>, err |-> a1.err, calls |-> <<>>]
      ELSE IF ~a2.ok
        THEN [tu |-> tu, frags |-> <<>>, err |-> a2.err, calls |-> <<>>]
      ELSE IF c.err # NoErr
        THEN [tu |-> c.after, frags |-> <<>>, err |-> c.err, calls |-> <<c>>]
      ELSE [tu |-> c.after, frags |-> << Fragment(command, c.asm) >>,
            err |-> NoErr, calls |-> <<c>>]

(***************************************************************************)
(* The target machine: the Hack computer the emitted assembly is written   *)
(* for.  Words are 16-bit two's complement; the A and C instructions, the  *)
(* predefined symbols and the allocation of variables from address 16 are  *)
(* those of the Hack assembler.  RAM is the cells 0..RamTop; an access     *)
(* outside them is a fault of the run.                                     *)
(***************************************************************************)
RamTop == 47

MaxSteps == 150

\* the 16-bit two's complement value of an integer
Word(x) == ((x + 32768) % 65536) - 32768

\* the unsigned reading of a word
Unsigned(x) == x % 65536

RECURSIVE BitOp(_, _, _, _)
\* bitwise and ("&") / or ("|") of the n low bits of two naturals
BitOp(op, a, b, n) ==
  IF n = 0 THEN 0
  ELSE (IF op = "&" THEN (IF a % 2 = 1 /\ b % 2 = 1 THEN 1 ELSE 0)
        ELSE (IF a % 2 = 1 \/ b % 2 = 1 THEN 1 ELSE 0))
       + 2 * BitOp(op, a \div 2, b \div 2, n - 1)

And16(a, b) == Word(BitOp("&", Unsigned(a), Unsigned(b), 16))

Or16(a, b) == Word(BitOp("|", Unsigned(a), Unsigned(b), 16))

\* the value of the comp field of a C-instruction
CompValue(comp, a, d, m) ==
  CASE comp = "0"   -> 0
    [] comp = "1"   -> 1
    [] comp = "-1"  -> -1
    [] comp = "D"   -> d
    [] comp = "A"   -> a
    [] comp = "M"   -> m
    [] comp = "!D"  -> Word(-d - 1)
    [] comp = "!A"  -> Word(-a - 1)
    [] comp = "!M"  -> Word(-m - 1)
    [] comp = "-D"  -> Word(-d)
    [] comp = "-A"  -> Word(-a)
    [] comp = "-M"  -> Word(-m)
    [] comp = "D+1" -> Word(d + 1)
    [] comp = "A+1" -> Word(a + 1)
    [] comp = "M+1" -> Word(m + 1)
    [] comp = "D-1" -> Word(d - 1)
    [] comp = "A-1" -> Word(a - 1)
    [] comp = "M-1" -> Word(m - 1)
    [] comp \in {"D+A", "A+D"} -> Word(d + a)
    [] comp \in {"D+M", "M+D"} -> Word(d + m)
    [] comp = "D-A" -> Word(d - a)
    [] comp = "D-M" -> Word(d - m)
    [] comp = "A-D" -> Word(a - d)
    [] comp = "M-D" -> Word(m - d)
    [] comp \in {"D&A", "A&D"} -> And16(d, a)
    [] comp \in {"D&M", "M&D"} -> And16(d, m)
    [] comp \in {"D|A", "A|D"} -> Or16(d, a)
    [] comp \in {"D|M", "M|D"} -> Or16(d, m)

UsesM(comp) ==
  comp \in {"M", "!M", "-M", "M+1", "M-1", "D+M", "M+D", "D-M", "M-D",
            "D&M", "M&D", "D|M", "M|D"}

WritesTo(dest, reg) ==
  CASE reg = "A" -> dest \in {"A", "AM", "AD", "AMD"}
    [] reg = "M" -> dest \in {"M", "AM", "MD", "AMD"}
    [] reg = "D" -> dest \in {"D", "AD", "MD", "AMD"}

Jumps(jump, v) ==
  CASE jump = ""    -> FALSE
    [] jump = "JMP" -> TRUE
    [] jump = "JEQ" -> v = 0
    [] jump = "JNE" -> v # 0
    [] jump = "JGT" -> v > 0
    [] jump = "JLT" -> v < 0
    [] jump = "JGE" -> v >= 0
    [] jump = "JLE" -> v <= 0

\* the lines of a block that take a ROM address
IsInstruction(line) == line[1] \in {"@", "C"}

RECURSIVE InstructionCount(_)
InstructionCount(prog) ==
  IF prog = <<>> THEN 0
  ELSE (IF IsInstruction(Head(prog)) THEN 1 ELSE 0) + InstructionCount(Tail(prog))

HasLabel(prog, sym) == \E i \in 1..Len(prog) : prog[i] = <<"(", sym>>

\* the ROM address of a label: the instructions before its definition
LabelAddress(prog, sym) ==
  InstructionCount(SubSeq(prog, 1,
    (CHOOSE i \in 1..Len(prog) :
       /\ prog[i] = <<"(", sym>>
       /\ \A j \in 1..(i - 1) : prog[j] # <<"(", sym>>) - 1))

Predefined ==
  << <<s_SP, 0>>, <<s_LCL, 1>>, <<s_ARG, 2>>, <<s_THIS, 3>>, <<s_THAT, 4>> >>
  \o [i \in 1..16 |-> << s_R \o Dec(i - 1), i - 1 >>]

IsPredefined(sym) == \E i \in 1..Len(Predefined) : Predefined[i][1] = sym

IsNumber(sym) == sym # <<>> /\ \A i \in 1..Len(sym) : IsAsciiDigit(sym[i])

IsVariable(prog, sym) ==
  ~IsNumber(sym) /\ ~IsPredefined(sym) /\ ~HasLabel(prog, sym)

RECURSIVE VariablesOf(_, _, _)
\* the variables of a block in the order of their first use
VariablesOf(prog, i, acc) ==
  IF i > Len(prog) THEN acc
  ELSE IF /\ prog[i][1] = "@"
          /\ IsVariable(prog, prog[i][2])
          /\ \A k \in 1..Len(acc) : acc[k] # prog[i][2]
    THEN VariablesOf(prog, i + 1, Append(acc, prog[i][2]))
  ELSE VariablesOf(prog, i + 1, acc)

\* the value the assembler gives to the symbol of an A-instruction
SymbolValue(prog, sym) ==
  IF IsNumber(sym) THEN DecValue(sym, 0)
  ELSE IF IsPredefined(sym)
    THEN Predefined[CHOOSE i \in 1..Len(Predefined) : Predefined[i][1] = sym][2]
  ELSE IF HasLabel(prog, sym) THEN LabelAddress(prog, sym)
  ELSE LET vs == VariablesOf(prog, 1, <<>>)
       IN  15 + (CHOOSE k \in 1..Len(vs) : vs[k] = sym)

\* the ROM of a block: its instructions, symbols resolved
Assemble(prog) ==
  LET ins == SelectSeq(prog, IsInstruction)
  IN  [i \in 1..Len(ins) |->
         IF ins[i][1] = "@"
         THEN [op |-> "A", value |-> SymbolValue(prog, ins[i][2]),
               dest |-> "", comp |-> "", jump |-> ""]
         ELSE [op |-> "C", value |-> 0,
               dest |-> ins[i][2], comp |-> ins[i][3], jump |-> ins[i][4]]]

\* the machine before a program is loaded
NoCpu ==
  [on |-> FALSE, prog |-> <<>>, rom |-> <<>>, halt |-> 0, A |-> 0, D |-> 0,
   PC |-> 0, RAM |-> <<>>, RAM0 |-> <<>>, fault |-> FALSE, steps |-> 0]

\* a program loaded at ROM address 0, with the RAM given; the run is over
\* when PC = halt
Loaded(prog, halt, ram) ==
  [on |-> TRUE, prog |-> prog, rom |-> Assemble(prog), halt |-> halt, A |-> 0,
   D |-> 0, PC |-> 0, RAM |-> ram, RAM0 |-> ram, fault |-> FALSE, steps |-> 0]

InRam(a) == a \in 0..RamTop

\* one instruction of the fetch-execute cycle
Execute(m) ==
  LET i == m.rom[m.PC + 1]
  IN  IF i.op = "A"
      THEN [m EXCEPT !.A = i.value, !.PC = @ + 1, !.steps = @ + 1]
      ELSE IF (UsesM(i.comp) \/ WritesTo(i.dest, "M")) /\ ~InRam(m.A)
        THEN [m EXCEPT !.fault = TRUE, !.steps = @ + 1]
      ELSE LET v == CompValue(i.comp, m.A, m.D,
                              IF UsesM(i.comp) THEN m.RAM[m.A] ELSE 0)
           IN  [m EXCEPT
                  !.A = IF WritesTo(i.dest, "A") THEN v ELSE @,
                  !.D = IF WritesTo(i.dest, "D") THEN v ELSE @,
                  !.RAM = IF WritesTo(i.dest, "M")
                          THEN [@ EXCEPT ![m.A] = v] ELSE @,
                  !.PC = IF Jumps(i.jump, v) THEN m.A ELSE @ + 1,
                  !.steps = @ + 1]

Halted(m) == m.on /\ ~m.fault /\ m.PC = m.halt

Running(m) == m.on /\ ~m.fault /\ m.PC # m.halt /\ m.PC \in 0..(Len(m.rom) - 1)

(***************************************************************************)
(* The state: the TranslationUnit and the HackParser of main.py, the       *)
(* driver's ASM list and position, and the history of translator calls.    *)
(***************************************************************************)
VARIABLES
  translator,       \* PARSER.translator, the TranslationUnit
  file_set,         \* PARSER.file_set
  line_no,          \* PARSER.line_no
  source_commands,  \* PARSER.source_commands
  raw_commands,     \* the 'commands' of the file last set (for reference)
  idx,              \* run(): commands of source_commands already iterated
  asm_list,         \* run(): its local list of fragments
  ASM,              \* main.py: the list of fragments of all files
  written,          \* whether the output file was written
  output,           \* the lines written to the output file
  pc,               \* where the driver is
  err,              \* the exception that ended the run, NoErr when none
  nfiles,           \* input files entered so far
  nlines,           \* lines of the input files entered so far
  calls,            \* history: the TranslationUnit calls made, in order
  cpu               \* the target machine running emitted assembly

vars == << translator, file_set, line_no, source_commands, raw_commands, idx,
           asm_list, ASM, written, output, pc, err, nfiles, nlines, calls, cpu >>

parser_vars == << file_set, line_no, source_commands, raw_commands, idx, asm_list >>

\* the name main.py derives for the k-th file of the directory: M1, M2, ...
FileNameOf(k) == <<"M">> \o Dec(k)

RECURSIVE Flatten(_)
\* the fragments written one after the other
Flatten(frags) == IF frags = <<>> THEN <<>> ELSE Head(frags) \o Flatten(Tail(frags))

Init ==
  /\ translator = NewTranslationUnit
  /\ file_set = FALSE
  /\ line_no = 0
  /\ source_commands = <<>>
  /\ raw_commands = <<>>
  /\ idx = 0
  /\ asm_list = <<>>
  /\ ASM = <<>>
  /\ written = FALSE
  /\ output = <<>>
  /\ pc = "boot"
  /\ err = NoErr
  /\ nfiles = 0
  /\ nlines = 0
  /\ calls = <<>>
  /\ cpu = NoCpu

\* main.py 46-47: with --boot, ASM starts with the bootstrap code
Bootstrap ==
  /\ pc = "boot"
  /\ \E c \in { CallRecord(translator, "get_bootstrap_instructions", <<>>, 0) } :
       /\ translator' = c.after
       /\ ASM' = Append(ASM, c.asm)
       /\ calls' = Append(calls, c)
  /\ pc' = "files"
  /\ UNCHANGED << cpu, parser_vars, written, output, err, nfiles, nlines >>

\* main.py 46: without --boot
NoBootstrap ==
  /\ pc = "boot"
  /\ pc' = "files"
  /\ UNCHANGED << cpu, translator, parser_vars, ASM, written, output, err, nfiles, nlines, calls >>

\* mutant: the empty lines are dropped from source_commands
Normalize_drops_empty(commands) ==
  SelectSeq([i \in 1..Len(commands) |-> Strip(Strip(BeforeComment(commands[i])))],
            LAMBDA c : c # <<>>)

\* the lines of a file after set_new_file's loop
Normalize(commands) ==
  [i \in 1..Len(commands) |-> Strip(Strip(BeforeComment(commands[i])))]

\* main.py 78, parser.py 57-65: PARSER.set_new_file(VM_FILE)
SetNewFile(commands) ==
  /\ pc = "files"
  /\ nfiles < MaxFiles
  /\ nlines + Len(commands) <= MaxTotal
  /\ nfiles' = nfiles + 1
  /\ nlines' = nlines + Len(commands)
  /\ line_no' = 0
  /\ source_commands' = Normalize(commands)
  /\ raw_commands' = commands
  /\ translator' = set_filename(translator, FileNameOf(nfiles + 1))
  /\ file_set' = TRUE
  /\ pc' = "set"
  /\ UNCHANGED << cpu, idx, asm_list, ASM, written, output, err, calls >>

\* parser.py 69-72: the entry of run()
RunStart ==
  /\ pc = "set"
  /\ IF ~file_set
     THEN /\ err' = IF translator.has_filename
                    THEN ParserError("EmptyInput", <<>>, 0, translator.filename)
                    ELSE AttributeError("filename")
          /\ pc' = "exit"
          /\ UNCHANGED << idx, asm_list >>
     ELSE /\ asm_list' = <<>>
          /\ idx' = 0
          /\ pc' = "run"
          /\ err' = err
  /\ UNCHANGED << cpu, translator, file_set, line_no, source_commands, raw_commands,
                  ASM, written, output, nfiles, nlines, calls >>

\* parser.py 73-115: one round of the loop of run(); an exception leaves
\* run() and main.py exits (main.py 80-89), the local asm_list is lost
RunStep ==
  /\ pc = "run"
  /\ idx < Len(source_commands)
  /\ idx' = idx + 1
  /\ line_no' = line_no + 1
  /\ LET command == source_commands[idx + 1]
     IN  IF __is_comment_or_empty_line(command)
         THEN UNCHANGED << translator, asm_list, pc, err, calls >>
         ELSE \E t \in { TranslateCommand(translator, command, line_no + 1,
                                          translator.filename) } :
                /\ translator' = t.tu
                /\ calls' = calls \o t.calls
                /\ err' = t.err
                /\ IF t.err # NoErr
                   THEN asm_list' = <<>> /\ pc' = "exit"
                   ELSE asm_list' = asm_list \o t.frags /\ pc' = pc
  /\ UNCHANGED << cpu, file_set, source_commands, raw_commands, ASM, written, output, nfiles, nlines >>

\* parser.py 116-117 and main.py 79: run() returns, ASM += its list
RunReturn ==
  /\ pc = "run"
  /\ idx = Len(source_commands)
  /\ file_set' = FALSE
  /\ ASM' = ASM \o asm_list
  /\ asm_list' = <<>>
  /\ pc' = "files"
  /\ UNCHANGED << cpu, translator, line_no, source_commands, raw_commands, idx,
                  written, output, err, nfiles, nlines, calls >>

\* main.py 91-93: every file is translated, the output file is written
WriteOutput ==
  /\ pc = "files"
  /\ written' = TRUE
  /\ output' = Flatten(ASM)
  /\ pc' = "done"
  /\ UNCHANGED << cpu, translator, parser_vars, ASM, err, nfiles, nlines, calls >>

(***************************************************************************)
(* The input: the lines of the files main.py reads.  A line as readlines() *)
(* returns it ends with a newline.                                         *)
(***************************************************************************)
Line(tokens) == Join(tokens) \o <<"\n">>

t_F    == <<"F">>
t_x    == <<"x">>
t_ret1 == <<"r", "e", "t", ".", "1">>
t_0    == <<"0">>

t_3    == <<"3">>

\* the files of at most n lines over a set of lines
FilesOver(lines, n) == UNION { [1..k -> lines] : k \in 0..n }

\* main.py, with the k-th input file drawn from FilesAt(k)
NextOver(FilesAt(_)) ==
  \/ Bootstrap
  \/ NoBootstrap
  \/ \E f \in FilesAt(nfiles + 1) : SetNewFile(f)
  \/ RunStart
  \/ RunStep
  \/ RunReturn
  \/ WriteOutput

\* Spec: files of branching commands, function declarations and calls
LabelLines ==
  { Line(<<s_label, t_x>>), Line(<<s_label, t_ret1>>),
    Line(<<s_goto, t_x>>), Line(<<s_if_goto, t_x>>),
    Line(<<s_function, t_F, t_0>>), Line(<<s_call, t_F, t_0>>) }

LabelFiles(k) == FilesOver(LabelLines, MaxLines)

Next == NextOver(LabelFiles)

Spec == Init /\ [][Next]_vars

(***************************************************************************)
(* A client that builds a TranslationUnit, with or without a filename, and *)
(* calls its methods directly, as the unit tests do.                       *)
(***************************************************************************)
\* TranslationUnit(filename), and TranslationUnit() when given is FALSE
TranslationUnit(given, filename) ==
  IF given THEN set_filename(NewTranslationUnit, filename) ELSE NewTranslationUnit

InitClient(names) ==
  /\ translator \in { TranslationUnit(FALSE, <<>>) }
                      \cup { TranslationUnit(TRUE, n) : n \in names }
  /\ file_set = FALSE
  /\ line_no = 0
  /\ source_commands = <<>>
  /\ raw_commands = <<>>
  /\ idx = 0
  /\ asm_list = <<>>
  /\ ASM = <<>>
  /\ written = FALSE
  /\ output = <<>>
  /\ pc = "client"
  /\ err = NoErr
  /\ nfiles = 0
  /\ nlines = 0
  /\ calls = <<>>
  /\ cpu = NoCpu

\* one call of a method; an exception reaches the client, which goes on
DirectCall(method, a1, a2) ==
  /\ pc = "client"
  /\ Len(calls) < MaxOps
  /\ \E c \in { CallRecord(translator, method, a1, a2) } :
       /\ translator' = c.after
       /\ calls' = Append(calls, c)
       /\ err' = c.err
  /\ UNCHANGED << cpu, parser_vars, ASM, written, output, pc, nfiles, nlines >>

Op(method, a1, a2) == [method |-> method, arg1 |-> a1, arg2 |-> a2]

NextDirect(ops) == \E op \in ops : DirectCall(op.method, op.arg1, op.arg2)

t_A   == <<"A">>
t_A1  == <<"A", "1">>
t_A_1 == <<"A", ".", "1">>

\* SpecStatic: static accesses under several file prefixes
StaticOps ==
  { Op(m, s_static, i) : m \in {"push_command", "pop_command"}, i \in {1, 11} }
  \cup { Op("set_filename", n, 0) : n \in {t_A, t_A1, t_A_1} }
  \cup { Op("push_command", s_constant, 7), Op("arithmetic_command", s_eq, 0) }

InitStatic == InitClient({t_A})

NextStatic == NextDirect(StaticOps)

SpecStatic == InitStatic /\ [][NextStatic]_vars

\* SpecTU: pushes and pops of every kind of segment, in and out of range
SegmentOps ==
  { Op(m, s_temp, i) : m \in {"push_command", "pop_command"}, i \in {-1, 0, 7, 8} }
  \cup { Op(m, s_pointer, i) : m \in {"push_command", "pop_command"},
                               i \in {-1, 0, 1, 2} }
  \cup { Op(m, s_static, 3) : m \in {"push_command", "pop_command"} }
  \cup { Op("pop_command", s_constant, 0), Op("pop_command", s_local, 2),
         Op("arithmetic_command", s_eq, 0), Op("call_function", t_F, 0),
         Op("function_declaration", t_F, 0) }

InitTU == InitClient({t_A})

NextTU == NextDirect(SegmentOps)

SpecTU == InitTU /\ [][NextTU]_vars

\* SpecParse: a first file of one line of any shape, alone, before or after
\* a line eq; the files after it hold the line eq
t_pushy   == <<"p", "u", "s", "h", "y">>
t_poppy   == <<"p", "o", "p", "p", "y">>
t_unknown == <<"u", "n", "k", "n", "o", "w", "n">>
t_index   == <<"i", "n", "d", "e", "x">>
t_ada     == <<"a", "d", "a">>

Heads == {s_push, s_pop, s_call, s_function, s_label, s_goto, s_if_goto,
          s_return, s_add, t_pushy}

Seconds == {s_local, s_argument, s_this, s_that, s_constant, s_pointer,
            s_static, s_temp, t_unknown, t_F}

Thirds == { <<"0">>, <<"1">>, <<"2">>, <<"7">>, <<"8">>, <<"0", "7">>,
            <<"-", "1">>, <<"+", "1">>, <<"1", "_", "0">>, <<"x">>,
            <<"SUPERSCRIPT_TWO">>, <<"ARABIC_INDIC_THREE">> }

ParseLines ==
  { Line(<<h, a, b>>) : h \in Heads \ {s_label, s_goto, s_if_goto, s_return, s_add},
                        a \in Seconds, b \in Thirds }
  \cup { Line(<<h, a>>) : h \in Heads \ {s_call, s_function}, a \in {t_x, t_pushy} }
  \cup { Line(<<h>>) : h \in __ARITHMETIC_COMMANDS \cup {s_return, s_push, s_label, t_ada} }
  \cup { Line(<<t_poppy, t_pushy, t_index, <<"9">>>>),
         Line(<<s_push, s_local, t_0, <<"1">>>>),
         <<" ", "/", "/", "h", "e", "l", "l", "o", " ", "\n">>,
         <<"\t", "p", "u", "s", "h", " ", " ", "l", "o", "c", "a", "l", "\t", "2",
           " ", "/", "/", " ", "x", "\n">>,
         <<"a", "d", "d", "/", "/", "s", "u", "b", "\n">> }

ParseFiles(k) ==
  IF k = 1
  THEN { <<l>> : l \in ParseLines }
       \cup { <<l, Line(<<s_eq>>)>> : l \in ParseLines }
       \cup { <<Line(<<s_eq>>), l>> : l \in ParseLines }
  ELSE { <<Line(<<s_eq>>)>> }

NextParse == NextOver(ParseFiles)

SpecParse == Init /\ [][NextParse]_vars

\* SpecCounters: files of comparisons and calls
CounterLines ==
  { Line(<<s_eq>>), Line(<<s_gt>>), Line(<<s_lt>>),
    Line(<<s_call, t_F, t_0>>), Line(<<s_call, s_Sys_init, t_0>>) }

CounterFiles(k) == FilesOver(CounterLines, MaxLines)

NextCounters == NextOver(CounterFiles)

SpecCounters == Init /\ [][NextCounters]_vars

(***************************************************************************)
(* Reading the emitted assembly and the history of calls.                  *)
(***************************************************************************)
IsLabelDef(line) == line[1] = "("

RECURSIVE LabelDefs(_)
\* the X of the lines (X) of a block, in order
LabelDefs(lines) ==
  IF lines = <<>> THEN <<>>
  ELSE IF IsLabelDef(Head(lines)) THEN <<Head(lines)[2]>> \o LabelDefs(Tail(lines))
  ELSE LabelDefs(Tail(lines))

NoDuplicates(seq) ==
  \A i, j \in 1..Len(seq) : i # j => seq[i] # seq[j]

BranchMethods ==
  {"label_command", "unconditional_goto_command", "conditional_goto_command"}

\* the symbol a branching call emitted: (S), or @S before the jump
BranchSymbol(c) ==
  IF c.method = "conditional_goto_command" THEN c.asm[4][2] ELSE c.asm[1][2]

\* the calls before the i-th that declared a function, in the whole run and
\* while the file of the i-th call was the current file
DeclsBefore(i) ==
  { j \in 1..(i - 1) : calls[j].method = "function_declaration" }

DeclsBeforeInFile(i) ==
  { j \in DeclsBefore(i) : /\ calls[j].before.has_filename
                           /\ calls[j].before.filename = calls[i].before.filename }

Last(S) == CHOOSE j \in S : \A k \in S : k <= j

(***************************************************************************)
(* C1.  No two label definitions (X) of the written output carry the same  *)
(* X, whatever the input files.                                            *)
(***************************************************************************)
C1_Counterexample == written => NoDuplicates(LabelDefs(output))

(***************************************************************************)
(* C5, as claimed.  Entering a new input file changes only the file        *)
(* prefix: current_function is what it was before.                         *)
(***************************************************************************)
C5_Counterexample ==
  [][(pc = "files" /\ pc' = "set")
       => translator'.current_function = translator.current_function]_vars

(***************************************************************************)
(* C5, amended.  Entering the k-th input file sets filename and            *)
(* static_prefix to its name and resets current_function to the empty      *)
(* string, and changes no other field; so every label, goto and if-goto    *)
(* is scoped by the last function declared in its own file, and by the     *)
(* empty string ($name) when its file declared none before it.             *)
(***************************************************************************)
C5_Scoped ==
  \A i \in 1..Len(calls) :
    calls[i].method \in BranchMethods =>
      BranchSymbol(calls[i]) =
        (IF DeclsBeforeInFile(i) = {} THEN <<>>
         ELSE calls[Last(DeclsBeforeInFile(i))].arg1) \o <<"$">> \o calls[i].arg1

C5_Amended ==
  /\ []C5_Scoped
  /\ [][(pc = "files" /\ pc' = "set")
          => translator' = [translator EXCEPT !.has_filename = TRUE,
                                              !.filename = FileNameOf(nfiles'),
                                              !.static_prefix = FileNameOf(nfiles'),
                                              !.current_function = <<>>]]_vars

\* a branching command of the second file, before any function declaration
\* of that file and after the first file declared a function, emitted $name
C5_Witness ==
  \E i \in 1..Len(calls) :
    /\ calls[i].method \in BranchMethods
    /\ calls[i].before.filename = FileNameOf(2)
    /\ DeclsBefore(i) # {}
    /\ DeclsBeforeInFile(i) = {}
    /\ BranchSymbol(calls[i]) = <<"$">> \o calls[i].arg1

(***************************************************************************)
(* C2.  The n-th eq of a run emits exactly the labels EQn and EQn_END, the *)
(* n-th gt GTn and GTn_END, the n-th lt LTn and LTn_END, n from 1; each    *)
(* counter equals the number of its commands translated so far in the      *)
(* whole run (so it never decreases and a new file does not reset it), and *)
(* no comparison label is emitted by two commands.                         *)
(***************************************************************************)
IsComparison(c) ==
  c.method = "arithmetic_command" /\ c.arg1 \in {s_eq, s_gt, s_lt}

\* the calls up to the i-th that translated the command cmd
ComparisonsUpTo(i, cmd) ==
  { j \in 1..i : calls[j].method = "arithmetic_command" /\ calls[j].arg1 = cmd }

Stem(cmd) == CASE cmd = s_eq -> s_EQ [] cmd = s_gt -> s_GT [] cmd = s_lt -> s_LT

\* the symbols of a block other than the predefined SP
SymbolsOf(asm) ==
  { asm[k][2] : k \in { m \in 1..Len(asm) : asm[m][1] \in {"@", "("} } } \ {s_SP}

RECURSIVE ComparisonLabels(_)
\* the label definitions of the comparison calls of a history, in order
ComparisonLabels(h) ==
  IF h = <<>> THEN <<>>
  ELSE (IF IsComparison(Head(h)) THEN LabelDefs(Head(h).asm) ELSE <<>>)
       \o ComparisonLabels(Tail(h))

C2_ComparisonLabels ==
  /\ \A i \in 1..Len(calls) :
       IsComparison(calls[i]) =>
         LET n == Cardinality(ComparisonsUpTo(i, calls[i].arg1))
             L == Stem(calls[i].arg1) \o PyStr(n)
         IN  /\ LabelDefs(calls[i].asm) = << L, L \o s_END >>
             /\ SymbolsOf(calls[i].asm) = { L, L \o s_END }
  /\ translator.eq_label_count = Cardinality(ComparisonsUpTo(Len(calls), s_eq))
  /\ translator.gt_label_count = Cardinality(ComparisonsUpTo(Len(calls), s_gt))
  /\ translator.lt_label_count = Cardinality(ComparisonsUpTo(Len(calls), s_lt))
  /\ NoDuplicates(ComparisonLabels(calls))

\* the second eq of a run, translated in the second file after another
\* comparison, emitted EQ2
C2_Witness ==
  \E i, j, k \in 1..Len(calls) :
    /\ i < j /\ j < k
    /\ calls[i].method = "arithmetic_command" /\ calls[i].arg1 = s_eq
    /\ calls[j].method = "arithmetic_command" /\ calls[j].arg1 \in {s_gt, s_lt}
    /\ calls[k].method = "arithmetic_command" /\ calls[k].arg1 = s_eq
    /\ calls[i].before.filename = FileNameOf(1)
    /\ calls[k].before.filename = FileNameOf(2)
    /\ LabelDefs(calls[k].asm) = << s_EQ \o <<"2">>, s_EQ \o <<"2">> \o s_END >>

(***************************************************************************)
(* C3.  The k-th call of a callee F in a run, the bootstrap's call of      *)
(* Sys.init counted, emits the return label F$ret.k: the block starts by   *)
(* pushing it (@F$ret.k, D=A) and ends with @F, 0;JMP, (F$ret.k), and      *)
(* defines no other label.                                                 *)
(***************************************************************************)
IsCall(c) == c.method \in {"call_function", "get_bootstrap_instructions"}

Callee(c) == IF c.method = "get_bootstrap_instructions" THEN s_Sys_init ELSE c.arg1

\* the block call_function returned: the bootstrap code holds it after its
\* own five lines
CallBlock(c) ==
  IF c.method = "get_bootstrap_instructions"
  THEN SubSeq(c.asm, 6, Len(c.asm)) ELSE c.asm

CallsUpTo(i, F) == { j \in 1..i : IsCall(calls[j]) /\ Callee(calls[j]) = F }

C3_ReturnLabels ==
  \A i \in 1..Len(calls) :
    IsCall(calls[i]) =>
      LET F == Callee(calls[i])
          k == Cardinality(CallsUpTo(i, F))
          R == F \o <<"$", "r", "e", "t", ".">> \o PyStr(k)
          b == CallBlock(calls[i])
      IN  /\ b[1] = AInst(R)
          /\ b[2] = CInst("D", "A", "")
          /\ b[Len(b) - 2] = AInst(F)
          /\ b[Len(b) - 1] = CInst("", "0", "JMP")
          /\ b[Len(b)] = LabelDef(R)
          /\ LabelDefs(b) = << R >>

\* after the bootstrap and a call of another callee, a call Sys.init 0 of
\* the second file got Sys.init$ret.2
C3_Witness ==
  \E i, j \in 1..Len(calls) :
    /\ calls[1].method = "get_bootstrap_instructions"
    /\ 1 < i /\ i < j
    /\ calls[i].method = "call_function" /\ calls[i].arg1 = t_F
    /\ calls[j].method = "call_function" /\ calls[j].arg1 = s_Sys_init
    /\ calls[j].before.filename = FileNameOf(2)
    /\ LabelDefs(calls[j].asm) = << s_Sys_init \o s_ret \o <<"2">> >>

(***************************************************************************)
(* C4.  push static i and pop static i translated while the file prefix is *)
(* P both address @P.i, whatever was translated in between, and two static *)
(* accesses address the same label only when their prefixes and their      *)
(* offsets are the same.                                                   *)
(***************************************************************************)
IsStaticAccess(c) ==
  /\ c.method \in {"push_command", "pop_command"}
  /\ c.arg1 = s_static
  /\ c.before.has_filename

\* the symbol a push or pop addresses: the first @ of a push of static,
\* temp or pointer, the @ after the pop-to-D of a pop
Addressed(c) == IF c.method = "push_command" THEN c.asm[1][2] ELSE c.asm[4][2]

C4_StaticLabels ==
  /\ \A i \in 1..Len(calls) :
       IsStaticAccess(calls[i]) =>
         /\ calls[i].err = NoErr
         /\ calls[i].asm[IF calls[i].method = "push_command" THEN 1 ELSE 4][1] = "@"
         /\ Addressed(calls[i])
              = calls[i].before.static_prefix \o <<".">> \o PyStr(calls[i].arg2)
  /\ \A i, j \in 1..Len(calls) :
       (IsStaticAccess(calls[i]) /\ IsStaticAccess(calls[j])
          /\ Addressed(calls[i]) = Addressed(calls[j]))
         => /\ calls[i].before.static_prefix = calls[j].before.static_prefix
            /\ calls[i].arg2 = calls[j].arg2

\* push static 11 under prefix A, then, under prefix A1, pop static 1:
\* the labels A.11 and A1.1 differ
C4_Witness ==
  \E i, j \in 1..Len(calls) :
    /\ i < j
    /\ calls[i].method = "push_command" /\ IsStaticAccess(calls[i])
    /\ calls[i].before.static_prefix = t_A /\ calls[i].arg2 = 11
    /\ calls[j].method = "pop_command" /\ IsStaticAccess(calls[j])
    /\ calls[j].before.static_prefix = t_A1 /\ calls[j].arg2 = 1
    /\ Addressed(calls[i]) = <<"A", ".", "1", "1">>
    /\ Addressed(calls[j]) = <<"A", "1", ".", "1">>

(***************************************************************************)
(* C8.  A push or pop of temp i returns exactly when 0 <= i <= 7 and then  *)
(* addresses @(5+i); of pointer i exactly when i is 0 (then @THIS) or 1    *)
(* (then @THAT).  Otherwise it raises TempOutOfRange or PointerOutOfRange,  *)
(* returns no assembly and leaves the TranslationUnit as it was.           *)
(***************************************************************************)
IsAccessOf(c, segment) ==
  c.method \in {"push_command", "pop_command"} /\ c.arg1 = segment

TempCells == <<<<"5">>, <<"6">>, <<"7">>, <<"8">>, <<"9">>, <<"1", "0">>,
               <<"1", "1">>, <<"1", "2">>>>

C8_TempAndPointerRange ==
  \A i \in 1..Len(calls) :
    LET c == calls[i]
    IN  /\ IsAccessOf(c, s_temp) =>
             IF 0 <= c.arg2 /\ c.arg2 <= 7
             THEN /\ c.err = NoErr
                  /\ Addressed(c) = TempCells[c.arg2 + 1]
             ELSE /\ c.err = ValueError("TempOutOfRange")
                  /\ c.asm = <<>>
                  /\ c.after = c.before
        /\ IsAccessOf(c, s_pointer) =>
             IF c.arg2 \in {0, 1}
             THEN /\ c.err = NoErr
                  /\ Addressed(c) = IF c.arg2 = 0 THEN s_THIS ELSE s_THAT
             ELSE /\ c.err = ValueError("PointerOutOfRange")
                  /\ c.asm = <<>>
                  /\ c.after = c.before

\* with a comparison counted and a function declared, push temp 7 returned
\* addressing @12 and pop temp 8 raised
C8_Witness ==
  \E i, j \in 1..Len(calls) :
    /\ calls[i].method = "push_command" /\ calls[i].arg1 = s_temp
    /\ calls[i].arg2 = 7 /\ calls[i].err = NoErr
    /\ Addressed(calls[i]) = <<"1", "2">>
    /\ calls[j].method = "pop_command" /\ calls[j].arg1 = s_temp
    /\ calls[j].arg2 = 8 /\ calls[j].err = ValueError("TempOutOfRange")
    /\ calls[j].before # NewTranslationUnit
    /\ calls[j].before.eq_label_count + Len(calls[j].before.function_call_count) > 0

(***************************************************************************)
(* Steps of run(): one round of its loop on a non-empty line, and how the  *)
(* round ended.                                                            *)
(***************************************************************************)
\* this step is a round of run() on the line after the idx lines done
IsRound == pc = "run" /\ idx' = idx + 1

RoundTokens == Split(source_commands[idx + 1])

\* the round raised a ParserError of this kind: no translator method was
\* called, nothing was appended, and the error names the line and the file
RaisedParserError(kind) ==
  /\ pc' = "exit"
  /\ err'.type = "ParserError"
  /\ err'.kind = kind
  /\ err'.line_no = line_no'
  /\ err'.filename = translator.filename
  /\ calls' = calls
  /\ translator' = translator
  /\ asm_list' = <<>>

\* the round called this translator method once, with these arguments
Called(method, a1, a2) ==
  /\ Len(calls') = Len(calls) + 1
  /\ SubSeq(calls', 1, Len(calls)) = calls
  /\ calls'[Len(calls')].method = method
  /\ calls'[Len(calls')].arg1 = a1
  /\ calls'[Len(calls')].arg2 = a2

\* a token of decimal digits only: no sign, no other character
IsUnsignedDecimal(tok) ==
  tok # <<>> /\ \A i \in 1..Len(tok) : IsDecimalChar(tok[i])

(***************************************************************************)
(* C6, as claimed.  The line pop constant k fails with the error kind      *)
(* CannotPopToConstant and emits no assembly.                              *)
(***************************************************************************)
IsPopConstant(toks) ==
  Len(toks) = 3 /\ toks[1] = s_pop /\ toks[2] = s_constant
  /\ IsUnsignedDecimal(toks[3])

C6_Counterexample ==
  [][(IsRound /\ IsPopConstant(RoundTokens))
       => (pc' = "exit" /\ err'.kind = "CannotPopToConstant" /\ asm_list' = <<>>)]_vars

(***************************************************************************)
(* C6, amended.  The line pop constant k fails in the parser with the      *)
(* ParserError kind UnrecognizedMemorySegment, naming the line and the     *)
(* file; pop_command is not called and nothing is emitted for the line.    *)
(***************************************************************************)
C6_Amended ==
  [][(IsRound /\ IsPopConstant(RoundTokens))
       => (/\ RaisedParserError("UnrecognizedMemorySegment")
           /\ err'.command = Join(RoundTokens)
           /\ ASM' = ASM)]_vars

\* run() ended on a line pop constant k with UnrecognizedMemorySegment
C6_Witness ==
  /\ pc = "exit"
  /\ idx >= 1
  /\ IsPopConstant(Split(source_commands[idx]))
  /\ err.kind = "UnrecognizedMemorySegment"

(***************************************************************************)
(* C7.  A line of three tokens that starts with push or pop: a second      *)
(* token that is no segment (constant is one for push only) raises         *)
(* UnrecognizedMemorySegment; else a third token that is no unsigned       *)
(* decimal digit string raises IllegalOffset; else push_command or         *)
(* pop_command is called with the decimal value of the third token.  In    *)
(* both failures no translator method is called.                           *)
(***************************************************************************)
IsPushOrPop(toks) == Len(toks) = 3 /\ toks[1] \in {s_push, s_pop}

SegmentsOf(head) ==
  {s_local, s_argument, s_this, s_that, s_pointer, s_static, s_temp}
  \cup (IF head = s_push THEN {s_constant} ELSE {})

C7_Counterexample ==
  [][(IsRound /\ IsPushOrPop(RoundTokens))
       => IF RoundTokens[2] \notin SegmentsOf(RoundTokens[1])
            THEN RaisedParserError("UnrecognizedMemorySegment")
          ELSE IF ~IsUnsignedDecimal(RoundTokens[3])
            THEN RaisedParserError("IllegalOffset")
          ELSE Called(IF RoundTokens[1] = s_push THEN "push_command"
                      ELSE "pop_command",
                      RoundTokens[2], DecValue(RoundTokens[3], 0))]_vars

(***************************************************************************)
(* C9.  A line of three tokens that starts with function or call: a third  *)
(* token that is no non-negative decimal integer raises a ParserError      *)
(* naming the line and the file, and nothing is emitted; else              *)
(* function_declaration or call_function is called with its value.         *)
(***************************************************************************)
IsFunctionOrCall(toks) == Len(toks) = 3 /\ toks[1] \in {s_function, s_call}

C9_Counterexample ==
  [][(IsRound /\ IsFunctionOrCall(RoundTokens))
       => IF ~IsUnsignedDecimal(RoundTokens[3])
            THEN \E kind \in {"UnrecognizedCommand", "UnrecognizedMemorySegment",
                              "IllegalOffset"} : RaisedParserError(kind)
          ELSE Called(IF RoundTokens[1] = s_call THEN "call_function"
                      ELSE "function_declaration",
                      RoundTokens[2], DecValue(RoundTokens[3], 0))]_vars

(***************************************************************************)
(* C10.  A non-empty line passes the classification only when it is one    *)
(* token that is return or an arithmetic command, two tokens that start    *)
(* with label, goto or if-goto, or three tokens that start with push, pop, *)
(* function or call; any other non-empty line raises UnrecognizedCommand.  *)
(* An exception ends run(): nothing is done after it, the fragments run()  *)
(* had gathered are lost, ASM is as it was when run() began, and no output *)
(* is written.                                                             *)
(***************************************************************************)
HasAcceptedShape(toks) ==
  \/ Len(toks) = 1 /\ toks[1] \in {s_return, s_add, s_sub, s_neg, s_eq, s_gt,
                                    s_lt, s_and, s_or, s_not}
  \/ Len(toks) = 2 /\ toks[1] \in {s_label, s_goto, s_if_goto}
  \/ Len(toks) = 3 /\ toks[1] \in {s_push, s_pop, s_function, s_call}

C10_Classification ==
  [][/\ (IsRound /\ RoundTokens # <<>>)
          => /\ (pc' = "run" \/ calls' # calls) => HasAcceptedShape(RoundTokens)
             /\ ~HasAcceptedShape(RoundTokens)
                  => /\ RaisedParserError("UnrecognizedCommand")
                     /\ err'.command = RoundTokens
             /\ pc' \in {"run", "exit"}
             /\ ASM' = ASM
     /\ pc' = "exit" => (asm_list' = <<>> /\ ASM' = ASM /\ ~written')
     /\ pc # "exit"]_vars

\* run() ended with UnrecognizedCommand on the second line of a file, a
\* line of four tokens: the fragment of the first line is lost
C10_Witness ==
  /\ pc = "exit"
  /\ err.kind = "UnrecognizedCommand"
  /\ idx = 2
  /\ Len(Split(source_commands[2])) = 4
  /\ Len(calls) >= 1
  /\ calls[Len(calls)].method = "arithmetic_command"
  /\ asm_list = <<>>
  /\ ~written

(***************************************************************************)
(* SpecLines: a file of up to MaxTotal lines, among them blank lines,      *)
(* whitespace-only lines, comment-only lines, a command with leading       *)
(* whitespace and a trailing comment, and two kinds of failing lines.      *)
(***************************************************************************)
t_bogus == <<"b", "o", "g", "u", "s">>

LineSet ==
  { <<"\n">>,
    <<" ", "\t", "\n">>,
    <<"/", "/", " ", "c", "\n">>,
    <<" ", "a", "d", "d", " ", "/", "/", " ", "x", "\n">>,
    Line(<<s_eq>>),
    Line(<<t_bogus>>),
    Line(<<s_pop, s_constant, <<"1">>>>),
    Line(<<s_push, s_constant, <<"7">>>>) }

\* the first file is any file over LineSet, the files after it hold eq
LineFiles(k) ==
  IF k = 1 THEN FilesOver(LineSet, MaxTotal) ELSE { << Line(<<s_eq>>) >> }

NextLines == NextOver(LineFiles)

SpecLines == Init /\ [][NextLines]_vars

\* a blank, whitespace-only or comment-only line of a file
IsBlankOrComment(raw) ==
  LET t == LStrip(raw)
  IN  t = <<>> \/ (Len(t) >= 2 /\ t[1] = "/" /\ t[2] = "/")

\* the command of a line: its comment removed, the whitespace around trimmed
CommandOf(raw) == Strip(BeforeComment(raw))

(***************************************************************************)
(* C11.  The line_no of a ParserError raised by run() is the 1-based       *)
(* position of the offending line among the lines of the file as read,     *)
(* blank, whitespace-only and comment-only lines counted: the line at that *)
(* position is the command of the error, and every line before it is       *)
(* skipped or has an accepted shape.  A round on a skipped line advances   *)
(* line_no by one, calls no translator method and appends no fragment.     *)
(***************************************************************************)
C11_ErrorPosition ==
  (pc = "exit" /\ err.type = "ParserError" /\ err.kind # "EmptyInput")
    => /\ err.line_no \in 1..Len(raw_commands)
       /\ ~IsBlankOrComment(raw_commands[err.line_no])
       /\ LET toks == Split(CommandOf(raw_commands[err.line_no]))
          IN  /\ err.command \in {toks, Join(toks)}
              /\ ~HasAcceptedShape(toks) \/ toks[1] \in {s_push, s_pop}
       /\ \A j \in 1..(err.line_no - 1) :
            \/ IsBlankOrComment(raw_commands[j])
            \/ HasAcceptedShape(Split(CommandOf(raw_commands[j])))

C11_LineNumbers ==
  /\ []C11_ErrorPosition
  /\ [](pc = "run" => line_no = idx /\ idx <= Len(raw_commands))
  /\ [][(IsRound /\ IsBlankOrComment(raw_commands[idx + 1]))
          => /\ line_no' = line_no + 1
             /\ asm_list' = asm_list
             /\ calls' = calls
             /\ pc' = "run"]_vars

\* run() failed on the third line of a file, after a blank line and a
\* comment-only line
C11_Witness ==
  /\ pc = "exit"
  /\ err.type = "ParserError"
  /\ err.line_no = 3
  /\ raw_commands[1] = <<"\n">>
  /\ raw_commands[2] = <<"/", "/", " ", "c", "\n">>
  /\ raw_commands[3] = Line(<<t_bogus>>)

(***************************************************************************)
(* C12.  When run() returns, the driver appends to ASM one fragment per    *)
(* line of the file that is not skipped, in the order of the lines; the    *)
(* i-th fragment is the line // --- <command> --- for the i-th such line,  *)
(* followed by the block the translator returned for it.  ASM only grows   *)
(* at its end, the bootstrap block is its first element when requested,    *)
(* and the output is ASM written in order.                                 *)
(***************************************************************************)
CommandsOf(raws) ==
  SelectSeq([i \in 1..Len(raws) |-> CommandOf(raws[i])], LAMBDA c : c # <<>>)

HeaderOf(command) ==
  <<"//", <<"-", "-", "-", " ">> \o command \o <<" ", "-", "-", "-">>>>

IsPrefix(a, b) == Len(a) <= Len(b) /\ SubSeq(b, 1, Len(a)) = a

ReturnsFragments ==
  (pc = "run" /\ pc' = "files")
    => LET cmds == CommandsOf(raw_commands)
           n    == Len(cmds)
       IN  /\ Len(ASM') = Len(ASM) + n
           /\ Len(calls) >= n
           /\ \A i \in 1..n :
                /\ ASM'[Len(ASM) + i][1] = HeaderOf(cmds[i])
                /\ Tail(ASM'[Len(ASM) + i]) = calls[Len(calls) - n + i].asm
                /\ calls[Len(calls) - n + i].err = NoErr

C12_FragmentOrder ==
  /\ [][ReturnsFragments]_vars
  /\ [][IsPrefix(ASM, ASM')]_vars
  /\ [][(calls' # calls /\ calls'[Len(calls')].method = "get_bootstrap_instructions")
          => (ASM = <<>> /\ nfiles = 0 /\ ASM' = <<calls'[Len(calls')].asm>>)]_vars
  /\ [](written => output = Flatten(ASM))

\* the output of two files after the bootstrap block: the second file's
\* fragment is last, the commented add of the first file before it
C12_Witness ==
  /\ written
  /\ nfiles = 2
  /\ Len(ASM) = 3
  /\ calls[1].method = "get_bootstrap_instructions"
  /\ ASM[1] = calls[1].asm
  /\ ASM[2][1] = HeaderOf(<<"a", "d", "d">>)
  /\ ASM[3][1] = HeaderOf(s_eq)

(***************************************************************************)
(* SpecScope: a client that declares functions, calls them, returns,       *)
(* branches, accesses statics and changes the file, in any order.          *)
(***************************************************************************)
t_G == <<"G">>

ScopeOps ==
  { Op("function_declaration", f, n) : f \in {t_F, t_G}, n \in {-1, 0, 1, 2} }
  \cup { Op(m, t_x, 0) : m \in {"label_command", "unconditional_goto_command",
                                "conditional_goto_command"} }
  \cup { Op("call_function", f, 0) : f \in {t_F, t_G} }
  \cup { Op(m, s_static, 3) : m \in {"push_command", "pop_command"} }
  \cup { Op("return_from_function", <<>>, 0), Op("set_filename", t_A1, 0) }

InitScope == InitClient({t_A})

NextScope == NextDirect(ScopeOps)

SpecScope == InitScope /\ [][NextScope]_vars

\* the first position of a block of lines in a block, 0 when it is absent
Pos(asm, block) ==
  LET at == { i \in 1..(Len(asm) - Len(block) + 1) :
                SubSeq(asm, i, i + Len(block) - 1) = block }
  IN  IF at = {} THEN 0 ELSE CHOOSE i \in at : \A j \in at : i <= j

\* seg = RAM[endFrame - k], endFrame kept in R13
RestoreOf(seg, k) ==
  << <<"@", s_R13>>, <<"C", "D", "M", "">>, <<"@", Dec(k)>>,
     <<"C", "D", "D-A", "">>, <<"C", "A", "D", "">>, <<"C", "D", "M", "">>,
     <<"@", seg>>, <<"C", "M", "D", "">> >>

\* SP = ARG + 1
ResetOfSP ==
  << <<"@", s_ARG>>, <<"C", "D", "M", "">>, <<"@", s_SP>>, <<"C", "M", "D+1", "">> >>

\* the jump through R14
JumpThroughR14 ==
  << <<"@", <<"R", "1", "4">>>>, <<"C", "A", "M", "">>, <<"C", "", "0", "JMP">> >>

IsReturn(c) == c.method = "return_from_function" /\ c.err = NoErr

\* the positions, in a return block, of the four restores in the order
\* given, between SP = ARG + 1 and the jump
RestoresInOrder(asm, segs) ==
  LET p(i) == Pos(asm, RestoreOf(segs[i][1], segs[i][2]))
  IN  /\ Pos(asm, ResetOfSP) > 0
      /\ Pos(asm, ResetOfSP) < p(1)
      /\ p(1) < p(2) /\ p(2) < p(3) /\ p(3) < p(4)
      /\ p(4) < Pos(asm, JumpThroughR14)
      /\ Pos(asm, JumpThroughR14) = Len(asm) - 2

IsChain ==
  \A i \in 1..(Len(calls) - 1) : calls[i + 1].before = calls[i].after

KeysOf(d) == { d[i].key : i \in 1..Len(d) }

\* every key of d is a key of e
KeepsKeys(d, e) == KeysOf(d) \subseteq KeysOf(e)

\* every key of d has in e the value it has in d
KeepsValues(d, e) == \A k \in KeysOf(d) : HasKey(e, k) /\ Lookup(e, k) = Lookup(d, k)

(***************************************************************************)
(* C16, as claimed.  No operation removes a key of static_labels or of     *)
(* function_call_count, or rewrites the value stored under a key.          *)
(***************************************************************************)
C16_Counterexample ==
  /\ IsChain
  /\ \A i \in 1..Len(calls) :
       /\ KeepsValues(calls[i].before.static_labels, calls[i].after.static_labels)
       /\ KeepsValues(calls[i].before.function_call_count,
                      calls[i].after.function_call_count)

(***************************************************************************)
(* C16, amended.  No operation removes a key of either map.  The value of  *)
(* a key of static_labels is never rewritten.  The value of a key of       *)
(* function_call_count is rewritten only by call_function of that callee,  *)
(* which adds one to it, and by nothing else; a new key starts at 1.       *)
(***************************************************************************)
C16_Amended ==
  /\ IsChain
  /\ \A i \in 1..Len(calls) :
       LET c == calls[i]
           d == c.before.function_call_count
           e == c.after.function_call_count
       IN  /\ KeepsValues(c.before.static_labels, c.after.static_labels)
           /\ KeepsKeys(d, e)
           /\ \A k \in KeysOf(e) :
                IF c.method = "call_function" /\ c.arg1 = k
                THEN Lookup(e, k) = (IF HasKey(d, k) THEN Lookup(d, k) + 1 ELSE 1)
                ELSE HasKey(d, k) /\ Lookup(e, k) = Lookup(d, k)

\* a static label was stored, then F was called twice: the label keeps its
\* address and the count of F went from 1 to 2
C16_Witness ==
  /\ Len(calls) = 3
  /\ calls[1].method = "push_command" /\ calls[1].err = NoErr
  /\ calls[2].method = "call_function" /\ calls[2].arg1 = t_F
  /\ calls[3].method = "call_function" /\ calls[3].arg1 = t_F
  /\ Lookup(calls[3].before.function_call_count, t_F) = 1
  /\ Lookup(translator.function_call_count, t_F) = 2
  /\ Len(translator.static_labels) = 1
  /\ translator.static_labels[1].value = 16

(***************************************************************************)
(* C19.  function_declaration(F, n) emits (F) followed by n copies of the  *)
(* push-0 block @SP, A=M, M=0, @SP, M=M+1 (none for n <= 0) and sets       *)
(* current_function to F, leaving the other fields alone.  With S the      *)
(* name of the last function declared since the last set_filename, the     *)
(* empty string when there is none: label_command(name) emits (S$name),    *)
(* unconditional_goto_command(name) emits @S$name, 0;JMP, and              *)
(* conditional_goto_command(name) emits @SP, AM=M-1, D=M, @S$name, D;JNE.  *)
(***************************************************************************)
PushZeroBlock ==
  << <<"@", s_SP>>, <<"C", "A", "M", "">>, <<"C", "M", "0", "">>,
     <<"@", s_SP>>, <<"C", "M", "M+1", "">> >>

\* the function in scope at the i-th call of the history
ScopeAt(i) ==
  LET marks == { j \in 1..(i - 1) :
                   calls[j].method \in {"function_declaration", "set_filename"} }
  IN  IF marks = {} THEN <<>>
      ELSE LET j == CHOOSE j \in marks : \A k \in marks : k <= j
           IN  IF calls[j].method = "set_filename" THEN <<>> ELSE calls[j].arg1

Scoped(i) == ScopeAt(i) \o <<"$">> \o calls[i].arg1

C19_FunctionScope ==
  /\ IsChain
  /\ \A i \in 1..Len(calls) :
       LET c == calls[i]
       IN  /\ c.method = "function_declaration"
                => LET n == IF c.arg2 > 0 THEN c.arg2 ELSE 0
                   IN  /\ c.err = NoErr
                       /\ Len(c.asm) = 1 + 5 * n
                       /\ c.asm[1] = <<"(", c.arg1>>
                       /\ \A k \in 0..(n - 1) :
                            SubSeq(c.asm, 2 + 5 * k, 6 + 5 * k) = PushZeroBlock
                       /\ c.after = [c.before EXCEPT !.current_function = c.arg1]
           /\ c.method \in BranchMethods
                => c.before.current_function = ScopeAt(i) /\ c.after = c.before
           /\ c.method = "label_command" => c.asm = << <<"(", Scoped(i)>> >>
           /\ c.method = "unconditional_goto_command"
                => c.asm = << <<"@", Scoped(i)>>, <<"C", "", "0", "JMP">> >>
           /\ c.method = "conditional_goto_command"
                => c.asm = << <<"@", s_SP>>, <<"C", "AM", "M-1", "">>,
                              <<"C", "D", "M", "">>, <<"@", Scoped(i)>>,
                              <<"C", "", "D", "JNE">> >>

\* a label before any function is ($x); F declared with a negative count
\* emits (F) alone; a goto after it addresses F$x
C19_Witness ==
  /\ Len(calls) = 3
  /\ calls[1].method = "label_command"
  /\ calls[1].asm = << <<"(", <<"$", "x">>>> >>
  /\ calls[2].method = "function_declaration"
  /\ calls[2].arg1 = t_F /\ calls[2].arg2 = -1
  /\ calls[2].asm = << <<"(", t_F>> >>
  /\ calls[3].method = "unconditional_goto_command"
  /\ calls[3].asm[1] = <<"@", <<"F", "$", "x">>>>

(***************************************************************************)
(* SpecRun: a client of HackParser that calls set_new_file and run() in    *)
(* any order, on a parser built over TranslationUnit() or over             *)
(* TranslationUnit('A'), and goes on after an exception.                   *)
(***************************************************************************)
InitRun ==
  /\ translator \in { TranslationUnit(FALSE, <<>>), TranslationUnit(TRUE, t_A) }
  /\ file_set = FALSE
  /\ line_no = 0
  /\ source_commands = <<>>
  /\ raw_commands = <<>>
  /\ idx = 0
  /\ asm_list = <<>>
  /\ ASM = <<>>
  /\ written = FALSE
  /\ output = <<>>
  /\ pc = "files"
  /\ err = NoErr
  /\ nfiles = 0
  /\ nlines = 0
  /\ calls = <<>>
  /\ cpu = NoCpu

\* the client calls run() without a call of set_new_file before it; a run
\* that failed can be repeated, which the bounds cut short
CallRun ==
  /\ pc = "files"
  /\ line_no <= MaxTotal
  /\ Len(calls) <= MaxTotal
  /\ pc' = "set"
  /\ UNCHANGED << cpu, translator, parser_vars, ASM, written, output, err,
                  nfiles, nlines, calls >>

\* the client catches the exception of run() and goes on
Catch ==
  /\ pc = "exit"
  /\ pc' = "files"
  /\ err' = NoErr
  /\ UNCHANGED << cpu, translator, parser_vars, ASM, written, output,
                  nfiles, nlines, calls >>

RunFiles == FilesOver({ Line(<<s_eq>>), Line(<<t_bogus>>) }, MaxLines)

NextRun ==
  \/ \E f \in RunFiles : SetNewFile(f)
  \/ CallRun
  \/ RunStart
  \/ RunStep
  \/ RunReturn
  \/ Catch

SpecRun == InitRun /\ [][NextRun]_vars

\* run() is entered while no file is set
EntersUnset == pc = "set" /\ ~file_set /\ pc' # "set"

(***************************************************************************)
(* C20.  run() entered while no file is set raises the ParserError         *)
(* EmptyInput with line_no 0, returns no fragments and changes nothing of  *)
(* the translator or of the parser; this on a parser built over            *)
(* TranslationUnit() before the first set_new_file, and on a second run()  *)
(* after a completed one.  When run() returns, the file is no longer set.  *)
(***************************************************************************)
C20_Counterexample ==
  [][/\ EntersUnset
          => /\ pc' = "exit"
             /\ err'.type = "ParserError"
             /\ err'.kind = "EmptyInput"
             /\ err'.line_no = 0
             /\ translator' = translator
             /\ asm_list' = asm_list /\ ASM' = ASM /\ calls' = calls
     /\ (pc = "run" /\ pc' = "files") => ~file_set']_vars

(***************************************************************************)
(* Running emitted assembly.  A client translates a list of commands,      *)
(* the blocks are assembled in order into one program with the loop        *)
(* (HALT) @HALT 0;JMP after the first part, the program is loaded with a   *)
(* RAM, and the machine runs it one instruction at a time until it         *)
(* reaches HALT.                                                           *)
(***************************************************************************)
t_HALT == <<"H", "A", "L", "T">>

EndLoop == << <<"(", t_HALT>>, <<"@", t_HALT>>, <<"C", "", "0", "JMP">> >>

RECURSIVE TranslateAll(_, _, _)
\* the records of the calls that translate the commands, in order
TranslateAll(tu, ops, acc) ==
  IF ops = <<>> THEN acc
  ELSE LET c == CallRecord(tu, Head(ops).method, Head(ops).arg1, Head(ops).arg2)
       IN  TranslateAll(c.after, Tail(ops), Append(acc, c))

BlocksOf(cs) == Flatten([i \in 1..Len(cs) |-> cs[i].asm])

LoadProgram(main, rest, ram) ==
  /\ pc = "client"
  /\ ~cpu.on
  /\ \E cs \in { TranslateAll(translator, main \o rest, <<>>) } :
       /\ \A i \in 1..Len(cs) : cs[i].err = NoErr
       /\ translator' = cs[Len(cs)].after
       /\ calls' = calls \o cs
       /\ \E prog \in { BlocksOf(SubSeq(cs, 1, Len(main))) \o EndLoop
                        \o BlocksOf(SubSeq(cs, Len(main) + 1, Len(cs))) } :
            cpu' = Loaded(prog, LabelAddress(prog, t_HALT), ram)
  /\ pc' = "cpu"
  /\ UNCHANGED << parser_vars, ASM, written, output, err, nfiles, nlines >>

Step ==
  /\ pc = "cpu"
  /\ Running(cpu)
  /\ cpu.steps < MaxSteps
  /\ cpu' = Execute(cpu)
  /\ UNCHANGED << translator, parser_vars, ASM, written, output, pc, err,
                  nfiles, nlines, calls >>

\* a RAM with the five pointers given and every other cell a holding 1000+a
RamWith(sp, lcl, arg, this, that) ==
  [a \in 0..RamTop |->
     CASE a = 0 -> sp [] a = 1 -> lcl [] a = 2 -> arg [] a = 3 -> this
       [] a = 4 -> that [] OTHER -> 1000 + a]

\* the run went well so far: no fault, and it stopped only at HALT
RunsWell ==
  cpu.on => /\ ~cpu.fault
            /\ cpu.steps < MaxSteps
            /\ Running(cpu) \/ Halted(cpu)

\* the cells of the RAM that differ from the RAM loaded
Changed == { a \in 0..RamTop : cpu.RAM[a] # cpu.RAM0[a] }

(***************************************************************************)
(* SpecCompare: eq, gt and lt run on two operands taken from the ends and  *)
(* the middle of the 16-bit range.                                         *)
(***************************************************************************)
Operands == {-32768, -32767, -1, 0, 1, 32766, 32767}

CompareRams ==
  { [RamWith(22, 30, 33, 36, 39) EXCEPT ![20] = x, ![21] = y] :
      x \in Operands, y \in Operands }

NextCompare ==
  \/ \E c \in {s_eq, s_gt, s_lt}, ram \in CompareRams :
       LoadProgram(<< Op("arithmetic_command", c, 0) >>, <<>>, ram)
  \/ Step

InitCompare == InitClient({t_A})

SpecCompare == InitCompare /\ [][NextCompare]_vars

(***************************************************************************)
(* C15.  The block of eq / gt / lt, run on x (second from the top) and y   *)
(* (top), decreases SP by one and leaves -1 on the new top when x = y /    *)
(* x > y / x < y as signed 16-bit integers, and 0 otherwise.               *)
(***************************************************************************)
C15_Counterexample ==
  /\ RunsWell
  /\ Halted(cpu)
       => LET x == cpu.RAM0[20]
              y == cpu.RAM0[21]
              c == calls[1].arg1
              holds == CASE c = s_eq -> x = y
                         [] c = s_gt -> x > y
                         [] c = s_lt -> x < y
          IN  /\ cpu.RAM[0] = 21
              /\ cpu.RAM[20] = (IF holds THEN -1 ELSE 0)

(***************************************************************************)
(* SpecPush: one push of every kind of segment, run on RAMs whose segment  *)
(* pointers are apart, or all equal to SP.                                 *)
(***************************************************************************)
MachineSegments == {s_local, s_argument, s_this, s_that}

PushOps ==
  { Op("push_command", seg, k) : seg \in MachineSegments, k \in {0, 1, 2, 5} }
  \cup { Op("push_command", s_constant, v) : v \in {0, 7} }
  \cup { Op("push_command", s_temp, k) : k \in {0, 7} }
  \cup { Op("push_command", s_pointer, k) : k \in {0, 1} }
  \cup { Op("push_command", s_static, 3) }

PushRams ==
  { RamWith(24, 30, 33, 36, 39), RamWith(24, 24, 24, 24, 24),
    RamWith(25, 40, 17, 20, 42) }

InitPush == InitClient({t_A})

NextPush ==
  \/ \E op \in PushOps, ram \in PushRams : LoadProgram(<<op>>, <<>>, ram)
  \/ Step

SpecPush == InitPush /\ [][NextPush]_vars

\* the RAM cell of a segment pointer
PointerCell(seg) ==
  CASE seg = s_local -> 1 [] seg = s_argument -> 2 [] seg = s_this -> 3
    [] seg = s_that -> 4

\* the value push seg k reads from a RAM
SourceValue(seg, k, ram) ==
  CASE seg = s_constant -> k
    [] seg = s_temp     -> ram[5 + k]
    [] seg = s_pointer  -> ram[3 + k]
    [] seg = s_static   -> ram[16]   \* the first variable of the program
    [] OTHER            -> ram[ram[PointerCell(seg)] + k]

PushDEpilogue ==
  << <<"@", s_SP>>, <<"C", "A", "M", "">>, <<"C", "M", "D", "">>,
     <<"@", s_SP>>, <<"C", "M", "M+1", "">> >>

PopOps ==
  { Op("pop_command", seg, k) : seg \in MachineSegments, k \in {0, 1, 2, 3} }

PopRams ==
  { RamWith(24, 30, 34, 38, 42), RamWith(24, 30, 30, 30, 30),
    RamWith(26, 44, 17, 20, 22) }

InitPop == InitClient({t_A})

NextPop ==
  \/ \E op \in PopOps, ram \in PopRams : LoadProgram(<<op>>, <<>>, ram)
  \/ Step

SpecPop == InitPop /\ [][NextPop]_vars

(***************************************************************************)
(* C18.  The block of pop seg k, seg one of local, argument, this, that,   *)
(* run, stores the value that was on top of the stack in                   *)
(* RAM[RAM[segPtr] + k] and takes one from SP; the segment pointers keep   *)
(* their values, and no cell changes but the target, SP and, for k >= 2,   *)
(* R13, which then holds the target address.                               *)
(***************************************************************************)
C18_Pop ==
  /\ RunsWell
  /\ Halted(cpu)
       => LET sp     == cpu.RAM0[0]
              k      == calls[1].arg2
              target == cpu.RAM0[PointerCell(calls[1].arg1)] + k
          IN  /\ cpu.RAM[target] = cpu.RAM0[sp - 1]
              /\ cpu.RAM[0] = sp - 1
              /\ \A c \in 1..4 : cpu.RAM[c] = cpu.RAM0[c]
              /\ Changed \subseteq ({0, target} \cup (IF k >= 2 THEN {13} ELSE {}))
              /\ k >= 2 => cpu.RAM[13] = target
              /\ (Pos(calls[1].asm, << <<"@", s_R13>>, <<"C", "M", "D", "">> >>) > 0)
                   <=> (k >= 2)

\* pop argument 3 has run on the RAM whose ARG is 34: RAM[37] holds the
\* value that was on top, and R13 the address 37
C18_Witness ==
  /\ Halted(cpu)
  /\ calls[1].arg1 = s_argument /\ calls[1].arg2 = 3
  /\ cpu.RAM0[2] = 34
  /\ cpu.RAM[37] = 1023
  /\ cpu.RAM[13] = 37
  /\ cpu.RAM[0] = 23

(***************************************************************************)
(* SpecCall: call F n, then HALT; F declares k locals, pushes the constant *)
(* 7 and returns.  The caller's n arguments are the cells below SP.        *)
(***************************************************************************)
CallPrograms ==
  { << << Op("call_function", t_F, n) >>,
       << Op("function_declaration", t_F, k), Op("push_command", s_constant, 7),
          Op("return_from_function", <<>>, 0) >> >> : n \in {0, 1, 2}, k \in {0, 1} }

CallRams == { RamWith(24, 101, 102, 103, 104), RamWith(20, 30, 18, 36, 39) }

InitCall == InitClient({t_A})

NextCall ==
  \/ \E p \in CallPrograms, ram \in CallRams : LoadProgram(p[1], p[2], ram)
  \/ Step

SpecCall == InitCall /\ [][NextCall]_vars

\* the return label of the call block: the label its last line defines
ReturnLabelOf(c) == c.asm[Len(c.asm)][2]

(***************************************************************************)
(* C14.  With S the SP before call F n: when control reaches F, ARG is     *)
(* S - n, LCL and SP are S + 5, and RAM[S..S+4] hold the return address    *)
(* and the caller's LCL, ARG, THIS, THAT.  When the callee has pushed v    *)
(* and run the return block, control is at the return label of the call,   *)
(* SP is S - n + 1, RAM[S - n] is v, and LCL, ARG, THIS, THAT hold what    *)
(* they held before the call; this for n = 0 too, where v is written over  *)
(* the cell of the return address.                                         *)
(***************************************************************************)
C14_CallAndReturn ==
  /\ RunsWell
  /\ cpu.on
       => LET S   == cpu.RAM0[0]
              n   == calls[1].arg2
              ret == LabelAddress(cpu.prog, ReturnLabelOf(calls[1]))
          IN  /\ ret = cpu.halt
              /\ ret = InstructionCount(calls[1].asm)
              /\ (cpu.PC = LabelAddress(cpu.prog, t_F) /\ cpu.steps > 0)
                   => /\ cpu.RAM[2] = S - n
                      /\ cpu.RAM[1] = S + 5
                      /\ cpu.RAM[0] = S + 5
                      /\ cpu.RAM[S] = ret
                      /\ \A j \in 1..4 : cpu.RAM[S + j] = cpu.RAM0[j]
                      /\ \A j \in 3..4 : cpu.RAM[j] = cpu.RAM0[j]
              /\ Halted(cpu)
                   => /\ cpu.steps > InstructionCount(calls[1].asm)
                      /\ cpu.RAM[14] = ret
                      /\ cpu.RAM[0] = S - n + 1
                      /\ cpu.RAM[S - n] = 7
                      /\ \A j \in 1..4 : cpu.RAM[j] = cpu.RAM0[j]

\* call F 0 has returned: 7 lies where the return address was
C14_Witness ==
  /\ Halted(cpu)
  /\ calls[1].method = "call_function" /\ calls[1].arg2 = 0
  /\ calls[2].arg2 = 1
  /\ cpu.RAM0[0] = 24
  /\ cpu.RAM[24] = 7
  /\ cpu.RAM[0] = 25
  /\ cpu.RAM[1] = 101 /\ cpu.RAM[2] = 102 /\ cpu.RAM[3] = 103 /\ cpu.RAM[4] = 104

(***************************************************************************)
(* SpecArith: add, sub, and, or, neg and not run on two operands taken     *)
(* from the ends and the middle of the 16-bit range.                       *)
(***************************************************************************)
ArithOperands == {-32768, -1, 0, 1, 5, 12, 32767}

ArithRams ==
  { [RamWith(22, 30, 33, 36, 39) EXCEPT ![20] = x, ![21] = y] :
      x \in ArithOperands, y \in ArithOperands }

InitArith == InitClient({t_A})

NextArith ==
  \/ \E c \in {s_add, s_sub, s_and, s_or, s_neg, s_not}, ram \in ArithRams :
       LoadProgram(<< Op("arithmetic_command", c, 0) >>, <<>>, ram)
  \/ Step

SpecArith == InitArith /\ [][NextArith]_vars

IsWord(v) == v >= -32768 /\ v <= 32767

\* r is v in 16 bits: a word that differs from v by a multiple of 2^16
Wraps(r, v) == IsWord(r) /\ (r - v) % 65536 = 0

\* bit i (0 the lowest) of the two's complement pattern of a word
Bit(v, i) == ((v % 65536) \div (2 ^ i)) % 2

(***************************************************************************)
(* C21.  With x second from the top and y on top: the block of add, sub,   *)
(* and, or leaves x+y, x-y, x&y, x|y (in 16 bits) where x was and takes    *)
(* one from SP; the block of neg, not leaves -y, the bitwise complement of *)
(* y, where y was and leaves SP alone.  No other cell of the RAM changes.  *)
(***************************************************************************)
C21_Arithmetic ==
  /\ RunsWell
  /\ Halted(cpu)
       => LET x == cpu.RAM0[20]
              y == cpu.RAM0[21]
              c == calls[1].arg1
              r == IF c \in {s_neg, s_not} THEN cpu.RAM[21] ELSE cpu.RAM[20]
          IN  /\ IsWord(r)
              /\ c = s_add => Wraps(r, x + y)
              /\ c = s_sub => Wraps(r, x - y)
              /\ c = s_neg => Wraps(r, 0 - y)
              /\ c = s_and
                   => \A i \in 0..15 : Bit(r, i) = Bit(x, i) * Bit(y, i)
              /\ c = s_or
                   => \A i \in 0..15 :
                        Bit(r, i) = (IF Bit(x, i) + Bit(y, i) > 0 THEN 1 ELSE 0)
              /\ c = s_not => \A i \in 0..15 : Bit(r, i) = 1 - Bit(y, i)
              /\ IF c \in {s_neg, s_not}
                 THEN cpu.RAM[0] = 22 /\ Changed \subseteq {21}
                 ELSE cpu.RAM[0] = 21 /\ Changed \subseteq {0, 20}

\* sub has run on x = 5 and y = 12: -7 lies where x was, and SP is 21
C21_Witness ==
  /\ Halted(cpu)
  /\ calls[1].arg1 = s_sub
  /\ cpu.RAM0[20] = 5 /\ cpu.RAM0[21] = 12
  /\ cpu.RAM[20] = -7
  /\ cpu.RAM[0] = 21

=============================================================================
